---- MODULE Spec2Model ----
(***************************************************************************)
(* Model of the PDF title-block automation tool.                           *)
(*                                                                         *)
(*   pdf_logic.py : process_with_margins (compose), process_single_page    *)
(*                  (composeOne), the sheet geometry constants             *)
(*   main.py      : parse_page_range, PDFAutomationApp.save_and_export,    *)
(*                  _batch_process_files, _on_template_selected,           *)
(*                  select_pdf, the navigation handlers and the preview    *)
(*   pdf_utils.py : get_page_count, generate_preview_image                 *)
(*                                                                         *)
(* The specifications share the variables:                                 *)
(*   Spec        the GUI batch: files are selected, "Process & Save"       *)
(*               starts the batch thread, which runs compose once per      *)
(*               file of the selection while the GUI may change the        *)
(*               selection, the template and the output folder and walk    *)
(*               through the files and pages with their preview threads;   *)
(*               the actions of the user are counted up to MaxEvents       *)
(*   SpecNoted   the same, the template path and the output folder of the  *)
(*               click kept in the thread's frame                          *)
(*   SpecLoop    the loop of the batch thread from its for statement on,   *)
(*               for every list, folder and exclusion set it can start     *)
(*               with                                                      *)
(*   SpecCompose one direct call of process_with_margins                   *)
(*   SpecTwice   two direct calls of process_with_margins in a row         *)
(*   SpecOne     one direct call of process_single_page                    *)
(*   SpecParse   parse_page_range on texts typed from page tokens          *)
(*   SpecFit     the placement of one source page in the safe zone         *)
(*   SpecLive    Spec under the scheduling of the batch thread and of the  *)
(*               Tk main loop                                              *)
(*   SpecNav     file selection and file/page navigation with the preview  *)
(*               threads they start                                        *)
(*   SpecApi     SpecNav with calls of load_preview_async and              *)
(*               update_preview_message, the two public methods that       *)
(*               nothing in the application calls                          *)
(*                                                                         *)
(* The PDF library (PyMuPDF) and the file system are the environment: a    *)
(* file on disk is missing, corrupt (exists, cannot be opened) or a PDF    *)
(* with a page list; a page may make clean_contents or show_pdf_page       *)
(* raise; a directory may be read-only or impossible to create.            *)
(***************************************************************************)
EXTENDS Integers, Sequences, FiniteSets, TLC

(* ------------------------------ bounds --------------------------------- *)

\* largest page count of a source document in the environment
MaxPages == 2

\* largest number of files selected for one batch
MaxFiles == 2

\* how many times "Process & Save" is pressed
MaxRuns == 1

\* largest page number of a typed exclusion token
MaxNum == 3

\* largest number of tokens of a typed exclusion text
MaxTokens == 2

\* largest side of a source page whose placement is computed, in points
MaxSide == 8

\* largest number of actions of the user (selections, navigation steps,
\* clicks, choices of a template or of an output folder) and of calls of
\* the preview methods from outside
MaxEvents == 3

(* --------------------------- sheet geometry ---------------------------- *)
\* Lengths are integers in millionths of a point: MM_TO_PTS is given with
\* six decimals, so every length of the program is a whole number of them.

Micro == 1000000

\* A3 landscape in points
A3_WIDTH_PTS == 1191

A3_HEIGHT_PTS == 842

\* MM_TO_PTS = 2.834645, in millionths
MM_TO_PTS_MICRO == 2834645

TOP_MARGIN_MM == 40

BOTTOM_MARGIN_MM == 30

LEFT_MARGIN_MM == 20

RIGHT_MARGIN_MM == 20

TOP_MARGIN_PTS == TOP_MARGIN_MM * MM_TO_PTS_MICRO

BOTTOM_MARGIN_PTS == BOTTOM_MARGIN_MM * MM_TO_PTS_MICRO

LEFT_MARGIN_PTS == LEFT_MARGIN_MM * MM_TO_PTS_MICRO

RIGHT_MARGIN_PTS == RIGHT_MARGIN_MM * MM_TO_PTS_MICRO

\* fitz.Rect(x0, y0, x1, y1)
Rect(x0, y0, x1, y1) == [x0 |-> x0, y0 |-> y0, x1 |-> x1, y1 |-> y1]

\* variant of get_safe_zone_rect: the sheet taken upright, its width and
\* height exchanged
get_safe_zone_rect_upright ==
    Rect(LEFT_MARGIN_PTS, TOP_MARGIN_PTS,
         A3_HEIGHT_PTS * Micro - RIGHT_MARGIN_PTS,
         A3_WIDTH_PTS * Micro - BOTTOM_MARGIN_PTS)

get_safe_zone_rect ==
    Rect(LEFT_MARGIN_PTS, TOP_MARGIN_PTS,
         A3_WIDTH_PTS * Micro - RIGHT_MARGIN_PTS,
         A3_HEIGHT_PTS * Micro - BOTTOM_MARGIN_PTS)

\* a3_rect = fitz.Rect(0, 0, A3_WIDTH_PTS, A3_HEIGHT_PTS)
a3_rect == Rect(0, 0, A3_WIDTH_PTS * Micro, A3_HEIGHT_PTS * Micro)

\* the rectangle of a page made by new_page(width, height)
PageRect(width, height) == Rect(0, 0, width, height)

NoRect == Rect(0, 0, 0, 0)

(* ------------------------- strings as sequences ------------------------ *)
\* A Python str is modelled as a sequence of one-character strings.

Digits == <<"0", "1", "2", "3", "4", "5", "6", "7", "8", "9">>

\* The decimal digits int() accepts (Unicode category Nd) among the
\* characters a string of this module can hold: the ASCII digits first,
\* then, each row from zero to nine, the digits of Extended Arabic-Indic,
\* NKo, Bengali, Gujarati, Tamil, Kannada, Sinhala Lith, Lao, Myanmar Shan,
\* Khmer, New Tai Lue, Tai Tham Hora, Tai Tham Tham, Sundanese, Saurashtra,
\* Javanese, Myanmar Tai Laing and Meetei Mayek.
DecimalDigits ==
    << Digits,
       <<"۰", "۱", "۲", "۳", "۴", "۵", "۶", "۷", "۸", "۹">>,
       <<"߀", "߁", "߂", "߃", "߄", "߅", "߆", "߇", "߈", "߉">>,
       <<"০", "১", "২", "৩", "৪", "৫", "৬", "৭", "৮", "৯">>,
       <<"૦", "૧", "૨", "૩", "૪", "૫", "૬", "૭", "૮", "૯">>,
       <<"௦", "௧", "௨", "௩", "௪", "௫", "௬", "௭", "௮", "௯">>,
       <<"೦", "೧", "೨", "೩", "೪", "೫", "೬", "೭", "೮", "೯">>,
       <<"෦", "෧", "෨", "෩", "෪", "෫", "෬", "෭", "෮", "෯">>,
       <<"໐", "໑", "໒", "໓", "໔", "໕", "໖", "໗", "໘", "໙">>,
       <<"႐", "႑", "႒", "႓", "႔", "႕", "႖", "႗", "႘", "႙">>,
       <<"០", "១", "២", "៣", "៤", "៥", "៦", "៧", "៨", "៩">>,
       <<"᧐", "᧑", "᧒", "᧓", "᧔", "᧕", "᧖", "᧗", "᧘", "᧙">>,
       <<"᪀", "᪁", "᪂", "᪃", "᪄", "᪅", "᪆", "᪇", "᪈", "᪉">>,
       <<"᪐", "᪑", "᪒", "᪓", "᪔", "᪕", "᪖", "᪗", "᪘", "᪙">>,
       <<"᮰", "᮱", "᮲", "᮳", "᮴", "᮵", "᮶", "᮷", "᮸", "᮹">>,
       <<"꣐", "꣑", "꣒", "꣓", "꣔", "꣕", "꣖", "꣗", "꣘", "꣙">>,
       <<"꧐", "꧑", "꧒", "꧓", "꧔", "꧕", "꧖", "꧗", "꧘", "꧙">>,
       <<"꧰", "꧱", "꧲", "꧳", "꧴", "꧵", "꧶", "꧷", "꧸", "꧹">>,
       <<"꯰", "꯱", "꯲", "꯳", "꯴", "꯵", "꯶", "꯷", "꯸", "꯹">> >>

DigitChars == {DecimalDigits[b][i] : b \in 1..Len(DecimalDigits), i \in 1..10}

IsDigit(c) == c \in DigitChars

\* the value of a digit: its place in its row
DigitVal(c) ==
    (CHOOSE i \in 1..10 : \E b \in 1..Len(DecimalDigits) : DecimalDigits[b][i] = c) - 1

\* the characters str.strip() and int() take for whitespace (str.isspace),
\* among the characters a string of this module can hold: the blank, tab,
\* newline, carriage return, form feed, vertical tab (U+000B), the
\* separators U+001C to U+001F, next line (U+0085), the no-break space
\* (U+00A0) and the ogham space mark (U+1680).
Whitespace ==
    {" ", "\t", "\n", "\r", "\f", "", "", "", "", "", "", " ", " "}

\* str.strip(): whitespace removed at both ends
RECURSIVE LStrip(_)
LStrip(s) == IF s # <<>> /\ Head(s) \in Whitespace THEN LStrip(Tail(s)) ELSE s

RECURSIVE RStrip(_)
RStrip(s) ==
    IF s # <<>> /\ s[Len(s)] \in Whitespace
    THEN RStrip(SubSeq(s, 1, Len(s) - 1)) ELSE s

Strip(s) == RStrip(LStrip(s))

\* str.split(sep): the pieces between the separators, empty pieces kept
RECURSIVE SplitFrom(_, _, _)
SplitFrom(s, sep, cur) ==
    IF s = <<>> THEN <<cur>>
    ELSE IF Head(s) = sep THEN <<cur>> \o SplitFrom(Tail(s), sep, <<>>)
    ELSE SplitFrom(Tail(s), sep, Append(cur, Head(s)))

Split(s, sep) == SplitFrom(s, sep, <<>>)

Contains(s, c) == \E i \in 1..Len(s) : s[i] = c

RECURSIVE DecimalValue(_)
DecimalValue(ds) ==
    IF ds = <<>> THEN 0
    ELSE 10 * DecimalValue(SubSeq(ds, 1, Len(ds) - 1)) + DigitVal(ds[Len(ds)])

\* int(s.strip()), as main.py 55, 56 and 63 call it (the text is stripped
\* before int() sees it): an optional sign, then decimal digits of any
\* script, which single underscores may group (int("1_0") = 10); anything
\* else is a ValueError (ok = FALSE).
PyInt(s) ==
    LET t == Strip(s)
        signed == t # <<>> /\ Head(t) \in {"+", "-"}
        ds == IF signed THEN Tail(t) ELSE t
        good == /\ ds # <<>>
                /\ \A i \in 1..Len(ds) : IsDigit(ds[i]) \/ ds[i] = "_"
                /\ IsDigit(ds[1])
                /\ IsDigit(ds[Len(ds)])
                /\ \A i \in 1..(Len(ds) - 1) : ~(ds[i] = "_" /\ ds[i + 1] = "_")
        digits == SelectSeq(ds, IsDigit)
    IN  IF ~good THEN [ok |-> FALSE, val |-> 0]
        ELSE [ok |-> TRUE,
              val |-> IF signed /\ Head(t) = "-" THEN 0 - DecimalValue(digits)
                      ELSE DecimalValue(digits)]

\* variant of PartIndices: the end of a range is not included
PartIndicesHalfOpen(raw) ==
    LET part == Strip(raw)
        range_parts == Split(part, "-")
    IN  IF part = <<>> THEN {}
        ELSE IF Contains(part, "-")
        THEN IF Len(range_parts) = 2
             THEN LET start == PyInt(range_parts[1])
                      end == PyInt(range_parts[2])
                  IN  IF start.ok /\ end.ok
                      THEN {page - 1 : page \in {p \in start.val..(end.val - 1) : p >= 1}}
                      ELSE {}
             ELSE {}
        ELSE LET page == PyInt(part)
             IN  IF page.ok /\ page.val >= 1 THEN {page.val - 1} ELSE {}

\* variant of PartIndices: a range is read from its smaller to its larger end
PartIndicesSwapped(raw) ==
    LET part == Strip(raw)
        range_parts == Split(part, "-")
    IN  IF part = <<>> THEN {}
        ELSE IF Contains(part, "-")
        THEN IF Len(range_parts) = 2
             THEN LET start == PyInt(range_parts[1])
                      end == PyInt(range_parts[2])
                      lo == IF start.val <= end.val THEN start.val ELSE end.val
                      hi == IF start.val <= end.val THEN end.val ELSE start.val
                  IN  IF start.ok /\ end.ok
                      THEN {page - 1 : page \in {p \in lo..hi : p >= 1}}
                      ELSE {}
             ELSE {}
        ELSE LET page == PyInt(part)
             IN  IF page.ok /\ page.val >= 1 THEN {page.val - 1} ELSE {}

\* variant of PartIndices: page numbers below 1 are converted like the others
PartIndicesNoFloor(raw) ==
    LET part == Strip(raw)
        range_parts == Split(part, "-")
    IN  IF part = <<>> THEN {}
        ELSE IF Contains(part, "-")
        THEN IF Len(range_parts) = 2
             THEN LET start == PyInt(range_parts[1])
                      end == PyInt(range_parts[2])
                  IN  IF start.ok /\ end.ok
                      THEN {page - 1 : page \in start.val..end.val}
                      ELSE {}
             ELSE {}
        ELSE LET page == PyInt(part)
             IN  IF page.ok THEN {page.val - 1} ELSE {}

\* what one comma-separated piece adds to excluded_indices (main.py 45-69)
PartIndices(raw) ==
    LET part == Strip(raw)
        range_parts == Split(part, "-")
    IN  IF part = <<>> THEN {}
        ELSE IF Contains(part, "-")
        THEN IF Len(range_parts) = 2
             THEN LET start == PyInt(range_parts[1])
                      end == PyInt(range_parts[2])
                  IN  IF start.ok /\ end.ok
                      THEN {page - 1 : page \in {p \in start.val..end.val : p >= 1}}
                      ELSE {}
             ELSE {}
        ELSE LET page == PyInt(part)
             IN  IF page.ok /\ page.val >= 1 THEN {page.val - 1} ELSE {}

\* the piece makes int() raise ValueError (caught at main.py 66)
PartRaises(raw) ==
    LET part == Strip(raw)
        range_parts == Split(part, "-")
    IN  /\ part # <<>>
        /\ IF Contains(part, "-")
           THEN Len(range_parts) = 2
                    /\ ~(PyInt(range_parts[1]).ok /\ PyInt(range_parts[2]).ok)
           ELSE ~PyInt(part).ok

\* variant of parse_page_range: the first ValueError ends the loop
parse_page_range_abort(range_string) ==
    IF range_string = <<>> \/ Strip(range_string) = <<>> THEN {}
    ELSE LET parts == Split(range_string, ",")
             reached == {i \in 1..Len(parts) : \A j \in 1..(i - 1) : ~PartRaises(parts[j])}
         IN  UNION {PartIndices(parts[i]) : i \in reached}

parse_page_range(range_string) ==
    IF range_string = <<>> \/ Strip(range_string) = <<>> THEN {}
    ELSE LET parts == Split(range_string, ",")
         IN  UNION {PartIndices(parts[i]) : i \in 1..Len(parts)}

(* --------------------------- the environment --------------------------- *)

Path(d, n) == [dir |-> d, name |-> n]

NoPath == Path("", "")

\* os.path.basename
basename(p) == p.name

\* A page.  src: index of the source page whose content it shows (its own
\* index for a page of an input file, -1 for a blank page), tmpl: the template
\* is overlaid, bad: the library call this page makes raise, ops: the library
\* calls applied so far, in execution order.
Page(i, bad) == [src |-> i, tmpl |-> FALSE, bad |-> bad, ops |-> <<>>]

Missing == [kind |-> "missing", pages |-> <<>>]

Corrupt == [kind |-> "corrupt", pages |-> <<>>]

Pdf(pages) == [kind |-> "pdf", pages |-> pages]

GoodPages(n) == [i \in 1..n |-> Page(i - 1, "none")]

\* n pages, the last one makes the named library call raise
BadLastPage(n, bad) == [i \in 1..n |-> Page(i - 1, IF i = n THEN bad ELSE "none")]

\* the customer drawings a call can be given
InputPaths ==
    { Path("d1", "a.pdf"), Path("d2", "a.pdf"), Path("d1", "missing.pdf"),
      Path("d1", "corrupt.pdf"), Path("d1", "zero.pdf"),
      Path("d1", "badclean.pdf"), Path("d1", "badplace.pdf") }

\* the drawings the file dialog offers: one of MaxPages pages, one of the
\* same base name in another folder with a single page, and one that
\* cannot be opened
SelectablePaths ==
    { Path("d1", "a.pdf"), Path("d2", "a.pdf"), Path("d1", "missing.pdf") }

\* the paths *.pdf of the folder "library", sorted by name
LibraryPaths ==
    << Path("library", "corrupt_t.pdf"), Path("library", "deleted_t.pdf"),
       Path("library", "title_t.pdf") >>

\* template paths of a direct call: the paths of the library (one of them
\* without a file) and, in another folder, a PDF without pages
TemplatePaths ==
    {LibraryPaths[i] : i \in 1..Len(LibraryPaths)} \cup {Path("d1", "empty_t.pdf")}

\* os.path.join(expanduser('~'), 'Desktop', 'Leviat_Output')
DefaultOutputFolder == "Leviat_Output"

\* "ro" exists and cannot be written, "nocreate" cannot be created
OutputFolders == {DefaultOutputFolder, "out", "ro", "nocreate"}

ReadOnlyDirs == {"ro"}

UncreatableDirs == {"nocreate"}

InitDirs == {"d1", "d2", "library", "out", "ro"}

\* f"processed_{filename}"
OutputName(filename) == "processed_" \o filename

OutputPaths ==
    {Path(d, OutputName(basename(p))) : d \in OutputFolders, p \in InputPaths}
        \cup {Path(d, "o.pdf") : d \in OutputFolders}
        \cup {Path(d, "o2.pdf") : d \in OutputFolders}

AllPaths == InputPaths \cup TemplatePaths \cup OutputPaths

InitContent(p) ==
    CASE p = Path("d1", "a.pdf") -> Pdf(GoodPages(MaxPages))
      [] p = Path("d2", "a.pdf") -> Pdf(GoodPages(1))
      [] p = Path("d1", "corrupt.pdf") -> Corrupt
      [] p = Path("d1", "zero.pdf") -> Pdf(<<>>)
      [] p = Path("d1", "badclean.pdf") -> Pdf(BadLastPage(MaxPages, "clean"))
      [] p = Path("d1", "badplace.pdf") -> Pdf(BadLastPage(MaxPages, "place"))
      [] p = Path("library", "corrupt_t.pdf") -> Corrupt
      [] p = Path("d1", "empty_t.pdf") -> Pdf(<<>>)
      [] p = Path("library", "title_t.pdf") -> Pdf(GoodPages(1))
      [] OTHER -> Missing

InitDisk == [p \in AllPaths |-> InitContent(p)]

(* ------------------------------- state --------------------------------- *)

VARIABLES
    disk,                \* path -> content of the file
    dirs,                \* the directories that exist
    open_handles,        \* <<call id, document>> of every open fitz document
    call,                \* frame of the running compose / composeOne call
    ncalls,              \* calls made so far (the id of the latest call)
    batch,               \* locals of the _batch_process_files thread
    selected_files,      \* self.selected_files
    template_path,       \* self.template_path
    exclude_pages_entry, \* text of the exclusion entry field
    output_path_entry,   \* text of the output folder entry field
    save_export_btn,     \* state of the Process & Save button
    after_queue,         \* callbacks scheduled with self.after, by due time
    runs,                \* how often Process & Save was pressed
    first_call,          \* frame of an earlier direct call, as it returned
    tokens,              \* the page tokens the exclusion text was typed from
    excluded_indices,    \* <<result>> of parse_page_range, <<>> before the call
    fit,                 \* a source page size and the size it was placed with
    current_file_index,  \* self.current_file_index
    current_page_index,  \* self.current_page_index
    current_file_page_count, \* self.current_file_page_count
    preview_threads,     \* the preview threads that have not finished
    canvas,              \* what the preview canvas shows
    update_stack,        \* the handlers waiting in self.update(), innermost last
    handled              \* how many actions of the user were handled

env_vars == <<disk, dirs, open_handles>>

gui_vars == <<selected_files, template_path, exclude_pages_entry,
              output_path_entry, save_export_btn, after_queue, runs, handled>>

nav_vars == <<current_file_index, current_page_index, current_file_page_count,
              preview_threads, canvas, update_stack>>

aux_vars == <<first_call, tokens, excluded_indices, fit, nav_vars>>

vars == <<disk, dirs, open_handles, call, ncalls, batch, selected_files,
          template_path, exclude_pages_entry, output_path_entry,
          save_export_btn, after_queue, runs, first_call, tokens,
          excluded_indices, fit, current_file_index, current_page_index,
          current_file_page_count, preview_threads, canvas, update_stack,
          handled>>

Docs == {"source", "template", "output"}

\* self.project_data as the constructor makes it, and with the form filled in
EmptyForm ==
    [project_name |-> "", client_name |-> "", date |-> "", drawn_by |-> ""]

FilledForm ==
    [project_name |-> "Bridge", client_name |-> "Leviat", date |-> "2024-05-01",
     drawn_by |-> "cmk"]

\* the project_data argument: None (the empty sequence) or a dictionary
ProjectData == {<<>>, <<EmptyForm>>, <<FilledForm>>}

NoExc == [kind |-> "none", path |-> NoPath]

Raise(kind, path) == [kind |-> kind, path |-> path]

IdleCall ==
    [fn |-> "none", pc |-> "idle", id |-> 0,
     input_path |-> NoPath, template_path |-> NoPath, output_path |-> NoPath,
     excluded_pages |-> {}, page_number |-> 0,
     source_doc |-> <<>>, template_doc |-> <<>>, output_doc |-> <<>>,
     page_num |-> 0, processed_count |-> 0,
     opened |-> {}, exc |-> NoExc, warned |-> FALSE, trace |-> <<>>,
     project_data |-> <<>>]

\* the frame of a fresh call
NewCall(fn, id, inp, tmpl, out, excl, pno) ==
    [IdleCall EXCEPT !.fn = fn, !.pc = "entry", !.id = id,
                     !.input_path = inp, !.template_path = tmpl,
                     !.output_path = out, !.excluded_pages = excl,
                     !.page_number = pno]

IdleBatch ==
    [pc |-> "idle", files |-> <<>>, idx |-> 0, total_files |-> 0,
     successful |-> 0, failed |-> 0, failed_files |-> <<>>,
     excluded_pages |-> {}, output_folder |-> "",
     attempts |-> <<>>, raised |-> <<>>, template_at_start |-> NoPath,
     folder_at_start |-> ""]

\* no page tokens: the exclusion text was not typed from a token list
NoTokens == [list |-> <<>>, pad |-> FALSE]

\* no source page is being placed on its own
NoFit == [w |-> 0, h |-> 0, shown |-> <<>>]

\* what the canvas shows: a text message, or the image of a page of a file
Message(text) == [kind |-> text, file |-> NoPath, page |-> 0]

Image(file, page) == [kind |-> "image", file |-> file, page |-> page]

\* the navigation state the constructor sets up: no preview is loading, the
\* canvas shows its start-up text
NavIdle ==
    /\ current_file_index = 0
    /\ current_page_index = 0
    /\ current_file_page_count = 0
    /\ preview_threads = {}
    /\ canvas = Message("select")
    /\ update_stack = <<>>

\* no earlier call is remembered, no text was typed from tokens,
\* parse_page_range has not been called on its own, no page is being placed
\* on its own and nothing is previewed
AuxIdle ==
    /\ first_call = IdleCall
    /\ tokens = NoTokens
    /\ excluded_indices = <<>>
    /\ fit = NoFit
    /\ NavIdle

(* --------------------- library and file system calls ------------------- *)

\* Path(p).exists()
Exists(p, d) == d[p].kind # "missing"

\* _scan_library_folder: without the folder there is no template (the
\* folder is then created, before anything else happens); otherwise the
\* PDF files the folder holds, sorted
_scan_library_folder(d, ds) ==
    IF "library" \notin ds THEN <<>>
    ELSE SelectSeq(LibraryPaths, LAMBDA p : Exists(p, d))

\* self.template_files: the scan at start-up
template_files == _scan_library_folder(InitDisk, InitDirs)

\* fitz.open(path) succeeds exactly on a PDF
Openable(p, d) == d[p].kind = "pdf"

\* Path(output_path).parent.mkdir(parents=True, exist_ok=True)
MkdirOk(dir, ds) == dir \in ds \/ dir \notin UncreatableDirs

\* Document.save: the folder must exist and be writable, and the library
\* refuses to save a document without pages
SaveOk(path, pages, ds) ==
    path.dir \in ds /\ path.dir \notin ReadOnlyDirs /\ pages # <<>>

(* ----------------- process_with_margins: its pieces ------------------- *)

\* variant of Validate: only the input path is checked
ValidateInputOnly(inp, tmpl, d) ==
    IF ~Exists(inp, d) THEN Raise("NotFound", inp) ELSE NoExc

\* the existence checks made before anything is opened
Validate(inp, tmpl, d) ==
    IF ~Exists(inp, d) THEN Raise("NotFound", inp)
    ELSE IF ~Exists(tmpl, d) THEN Raise("NotFound", tmpl)
    ELSE NoExc

\* fitz.open(path) of one of the call's documents: the frame and the handle
\* set after it.  A failing open raises out of the function from outside
\* its try block, so no finally clause runs.
OpenDocument(c, doc, path, next, d, handles) ==
    IF Openable(path, d)
    THEN [call |-> [c EXCEPT !.pc = next,
                             !.opened = @ \cup {doc},
                             !.source_doc = IF doc = "source" THEN d[path].pages ELSE @,
                             !.template_doc = IF doc = "template" THEN d[path].pages ELSE @],
          handles |-> handles \cup {<<c.id, doc>>}]
    ELSE [call |-> [c EXCEPT !.pc = "returned", !.exc = Raise("OpenError", path)],
          handles |-> handles]

BlankPage == [src |-> -1, tmpl |-> FALSE, bad |-> "none", ops |-> <<"new_page">>]

\* a library call of the page body, as recorded in the call's trace: the
\* call, the output page it works on (-1 for none), the document and page
\* it takes its content from, and its target rectangle
Step(op, onto, doc, pno, rect) ==
    [op |-> op, onto |-> onto, doc |-> doc, pno |-> pno, rect |-> rect]

\* variant of PlacePage: the template is placed before the source page
PlacePageTemplateFirst(c, pno) ==
    LET sp == c.source_doc[pno + 1]
        k == Len(c.output_doc) + 1
        cleaned == [c EXCEPT !.source_doc[pno + 1].ops = Append(@, "clean_contents"),
                             !.trace = Append(@, Step("clean_contents", -1, "source",
                                                      pno, NoRect))]
        added == [cleaned EXCEPT !.output_doc = Append(@, BlankPage),
                                 !.trace = Append(@, Step("new_page", k - 1, "output", k - 1,
                                                          PageRect(A3_WIDTH_PTS * Micro,
                                                                   A3_HEIGHT_PTS * Micro)))]
        overlaid == IF Len(c.template_doc) > 0
                    THEN [added EXCEPT !.output_doc[k].tmpl = TRUE,
                                       !.output_doc[k].ops = Append(@, "show_template"),
                                       !.trace = Append(@, Step("show_pdf_page", k - 1,
                                                                "template", 0, a3_rect))]
                    ELSE added
    IN  IF sp.bad = "clean" THEN [c EXCEPT !.exc = Raise("CompositionFailure", c.input_path)]
        ELSE IF sp.bad = "place"
        THEN [overlaid EXCEPT !.exc = Raise("CompositionFailure", c.input_path)]
        ELSE [overlaid EXCEPT !.output_doc[k].src = pno,
                              !.output_doc[k].ops = Append(@, "show_source"),
                              !.trace = Append(@, Step("show_pdf_page", k - 1, "source",
                                                       pno, get_safe_zone_rect))]

\* Source page pno (0-based) is cleaned, a new sheet-sized page is appended
\* to the output document, the source page is shown in the safe zone and the
\* template's first page, if there is one, on the full sheet.  A raising
\* library call leaves exc set and everything done before it in place.
PlacePage(c, pno) ==
    LET sp == c.source_doc[pno + 1]
        k == Len(c.output_doc) + 1
        cleaned == [c EXCEPT !.source_doc[pno + 1].ops = Append(@, "clean_contents"),
                             !.trace = Append(@, Step("clean_contents", -1, "source",
                                                      pno, NoRect))]
        added == [cleaned EXCEPT !.output_doc = Append(@, BlankPage),
                                 !.trace = Append(@, Step("new_page", k - 1, "output", k - 1,
                                                          PageRect(A3_WIDTH_PTS * Micro,
                                                                   A3_HEIGHT_PTS * Micro)))]
        placed == [added EXCEPT !.output_doc[k].src = pno,
                                !.output_doc[k].ops = Append(@, "show_source"),
                                !.trace = Append(@, Step("show_pdf_page", k - 1, "source",
                                                         pno, get_safe_zone_rect))]
    IN  IF sp.bad = "clean" THEN [c EXCEPT !.exc = Raise("CompositionFailure", c.input_path)]
        ELSE IF sp.bad = "place"
        THEN [added EXCEPT !.exc = Raise("CompositionFailure", c.input_path)]
        ELSE IF Len(c.template_doc) > 0
        THEN [placed EXCEPT !.output_doc[k].tmpl = TRUE,
                            !.output_doc[k].ops = Append(@, "show_template"),
                            !.trace = Append(@, Step("show_pdf_page", k - 1, "template",
                                                     0, a3_rect))]
        ELSE placed

\* variant of LoopIteration: the exclusion set is not consulted
LoopIterationNoSkip(c) ==
    LET p == PlacePage([c EXCEPT !.processed_count = @ + 1], c.page_num)
    IN  IF p.exc.kind # "none" THEN [p EXCEPT !.pc = "finally"]
        ELSE [p EXCEPT !.page_num = @ + 1]

\* variant of LoopIteration: an exclusion index past the last page counts
\* round to the front of the document
LoopIterationWrap(c) ==
    LET n == Len(c.source_doc)
    IN  IF \E e \in c.excluded_pages : e % n = c.page_num
        THEN [c EXCEPT !.page_num = @ + 1]
        ELSE LET p == PlacePage([c EXCEPT !.processed_count = @ + 1], c.page_num)
             IN  IF p.exc.kind # "none" THEN [p EXCEPT !.pc = "finally"]
                 ELSE [p EXCEPT !.page_num = @ + 1]

\* variant of LoopIteration: the page body reads an entry of project_data,
\* which fails on None
LoopIterationReadsData(c) ==
    IF c.page_num \in c.excluded_pages THEN [c EXCEPT !.page_num = @ + 1]
    ELSE IF c.project_data = <<>>
    THEN [c EXCEPT !.processed_count = @ + 1, !.pc = "finally",
                   !.exc = Raise("CompositionFailure", c.input_path)]
    ELSE LET p == PlacePage([c EXCEPT !.processed_count = @ + 1], c.page_num)
         IN  IF p.exc.kind # "none" THEN [p EXCEPT !.pc = "finally"]
             ELSE [p EXCEPT !.page_num = @ + 1]

\* variant of LoopIteration: a page whose cleaning or placing fails is
\* given up and the loop goes on to the next page
LoopIterationKeepsGoing(c) ==
    IF c.page_num \in c.excluded_pages THEN [c EXCEPT !.page_num = @ + 1]
    ELSE LET p == PlacePage([c EXCEPT !.processed_count = @ + 1], c.page_num)
         IN  [p EXCEPT !.exc = NoExc, !.page_num = @ + 1]

\* one iteration of the page loop, for page c.page_num
LoopIteration(c) ==
    IF c.page_num \in c.excluded_pages THEN [c EXCEPT !.page_num = @ + 1]
    ELSE LET p == PlacePage([c EXCEPT !.processed_count = @ + 1], c.page_num)
         IN  IF p.exc.kind # "none" THEN [p EXCEPT !.pc = "finally"]
             ELSE [p EXCEPT !.page_num = @ + 1]

\* variant of WriteOutput: a file already at the output path is not
\* overwritten, the save fails
WriteOutputExclusive(c, d, ds) ==
    LET out == c.output_path
        made == ds \cup {out.dir}
    IN  IF ~MkdirOk(out.dir, ds)
        THEN [call |-> [c EXCEPT !.pc = "finally", !.exc = Raise("WriteFailure", out)],
              disk |-> d, dirs |-> ds]
        ELSE IF ~SaveOk(out, c.output_doc, made) \/ Exists(out, d)
        THEN [call |-> [c EXCEPT !.pc = "finally", !.exc = Raise("WriteFailure", out)],
              disk |-> d, dirs |-> made]
        ELSE [call |-> [c EXCEPT !.pc = "finally"],
              disk |-> [d EXCEPT ![out] = Pdf(c.output_doc)], dirs |-> made]

\* the parent folder is created and the output document saved; the frame,
\* the disk and the directories after it
WriteOutput(c, d, ds) ==
    LET out == c.output_path
        made == ds \cup {out.dir}
    IN  IF ~MkdirOk(out.dir, ds)
        THEN [call |-> [c EXCEPT !.pc = "finally", !.exc = Raise("WriteFailure", out)],
              disk |-> d, dirs |-> ds]
        ELSE IF ~SaveOk(out, c.output_doc, made)
        THEN [call |-> [c EXCEPT !.pc = "finally", !.exc = Raise("WriteFailure", out)],
              disk |-> d, dirs |-> made]
        ELSE [call |-> [c EXCEPT !.pc = "finally"],
              disk |-> [d EXCEPT ![out] = Pdf(c.output_doc)], dirs |-> made]

\* variant of FinishCompose: no test for an empty result before writing
FinishComposeAlwaysWrite(c, d, ds) == WriteOutput(c, d, ds)

\* variant of FinishCompose: an empty result is raised as an error
FinishComposeRaiseOnEmpty(c, d, ds) ==
    IF c.processed_count = 0
    THEN [call |-> [c EXCEPT !.pc = "finally", !.warned = TRUE,
                             !.exc = Raise("EmptyResult", c.input_path)],
          disk |-> d, dirs |-> ds]
    ELSE WriteOutput(c, d, ds)

\* variant of FinishCompose: the cleaned source document is saved back to
\* the input file before the output is written
FinishComposeSavesSource(c, d, ds) ==
    IF c.processed_count = 0
    THEN [call |-> [c EXCEPT !.pc = "finally", !.warned = TRUE], disk |-> d, dirs |-> ds]
    ELSE WriteOutput(c, [d EXCEPT ![c.input_path] = Pdf(c.source_doc)], ds)

\* after the loop: nothing processed is a warning and a plain return,
\* otherwise the output is written
FinishCompose(c, d, ds) ==
    IF c.processed_count = 0
    THEN [call |-> [c EXCEPT !.pc = "finally", !.warned = TRUE], disk |-> d, dirs |-> ds]
    ELSE WriteOutput(c, d, ds)

\* variant of CloseAll: the documents are closed on the normal path only
CloseAllOnSuccess(c, handles) ==
    IF c.exc.kind = "none" THEN handles \ {<<c.id, doc>> : doc \in Docs} ELSE handles

\* the finally clause: the three documents are closed
CloseAll(c, handles) == handles \ {<<c.id, doc>> : doc \in Docs}

(* ----------------- process_with_margins: its steps -------------------- *)

ComposeValidate ==
    /\ call.fn = "compose" /\ call.pc = "entry"
    /\ LET e == Validate(call.input_path, call.template_path, disk)
       IN  call' = IF e.kind # "none" THEN [call EXCEPT !.pc = "returned", !.exc = e]
                   ELSE [call EXCEPT !.pc = "open_source"]
    /\ UNCHANGED <<env_vars, ncalls, batch, gui_vars, aux_vars>>

ComposeOpenSource ==
    /\ call.fn = "compose" /\ call.pc = "open_source"
    /\ LET r == OpenDocument(call, "source", call.input_path, "open_template",
                             disk, open_handles)
       IN  call' = r.call /\ open_handles' = r.handles
    /\ UNCHANGED <<disk, dirs, ncalls, batch, gui_vars, aux_vars>>

ComposeOpenTemplate ==
    /\ call.fn = "compose" /\ call.pc = "open_template"
    /\ LET r == OpenDocument(call, "template", call.template_path, "open_output",
                             disk, open_handles)
       IN  call' = r.call /\ open_handles' = r.handles
    /\ UNCHANGED <<disk, dirs, ncalls, batch, gui_vars, aux_vars>>

\* fitz.open() with no argument creates the empty output document
ComposeOpenOutput ==
    /\ call.fn = "compose" /\ call.pc = "open_output"
    /\ call' = [call EXCEPT !.pc = "loop", !.opened = @ \cup {"output"},
                            !.page_num = 0, !.processed_count = 0]
    /\ open_handles' = open_handles \cup {<<call.id, "output">>}
    /\ UNCHANGED <<disk, dirs, ncalls, batch, gui_vars, aux_vars>>

ComposeLoop ==
    /\ call.fn = "compose" /\ call.pc = "loop"
    /\ call.page_num < Len(call.source_doc)
    /\ call' = LoopIteration(call)
    /\ UNCHANGED <<env_vars, ncalls, batch, gui_vars, aux_vars>>

ComposeFinish ==
    /\ call.fn = "compose" /\ call.pc = "loop"
    /\ call.page_num >= Len(call.source_doc)
    /\ LET r == FinishCompose(call, disk, dirs)
       IN  call' = r.call /\ disk' = r.disk /\ dirs' = r.dirs
    /\ UNCHANGED <<open_handles, ncalls, batch, gui_vars, aux_vars>>

ComposeFinally ==
    /\ call.fn = "compose" /\ call.pc = "finally"
    /\ open_handles' = CloseAll(call, open_handles)
    /\ call' = [call EXCEPT !.pc = "returned"]
    /\ UNCHANGED <<disk, dirs, ncalls, batch, gui_vars, aux_vars>>

ComposeStep ==
    \/ ComposeValidate
    \/ ComposeOpenSource
    \/ ComposeOpenTemplate
    \/ ComposeOpenOutput
    \/ ComposeLoop
    \/ ComposeFinish
    \/ ComposeFinally

(* ------------------ one direct call of process_with_margins ------------ *)

GuiIdle ==
    /\ batch = IdleBatch
    /\ selected_files = <<>>
    /\ template_path = template_files[1]
    /\ exclude_pages_entry = <<>>
    /\ output_path_entry = <<DefaultOutputFolder>>
    /\ save_export_btn = "normal"
    /\ after_queue = <<>>
    /\ runs = 0
    /\ handled = 0

EnvInit ==
    /\ disk = InitDisk
    /\ dirs = InitDirs
    /\ open_handles = {}

\* exclusion sets of a direct call: any indices up to one past the last page
ExclusionSets == SUBSET (0..MaxPages)

InitCompose ==
    /\ EnvInit
    /\ GuiIdle
    /\ AuxIdle
    /\ ncalls = 1
    /\ \E inp \in InputPaths, tmpl \in TemplatePaths, d \in OutputFolders,
          excl \in ExclusionSets :
          call = NewCall("compose", 1, inp, tmpl, Path(d, "o.pdf"), excl, 0)

NextCompose == ComposeStep

SpecCompose == InitCompose /\ [][NextCompose]_vars

(* --------------- two calls of process_with_margins in a row ------------ *)

\* Once a direct call has returned, the function is called again on the
\* same input and template with any exclusion set and any project data,
\* writing to the same output file or to a second file of the same folder.
\* The frame of the first call is kept as it returned.
ComposeAgain ==
    /\ call.fn = "compose" /\ call.pc = "returned"
    /\ first_call = IdleCall
    /\ \E excl \in ExclusionSets, pd \in ProjectData,
          out \in {call.output_path, Path(call.output_path.dir, "o2.pdf")} :
          call' = [NewCall("compose", ncalls + 1, call.input_path,
                           call.template_path, out, excl, 0)
                      EXCEPT !.project_data = pd]
    /\ first_call' = call
    /\ ncalls' = ncalls + 1
    /\ UNCHANGED <<env_vars, batch, gui_vars, tokens, excluded_indices, fit, nav_vars>>

NextTwice ==
    \/ ComposeStep
    \/ ComposeAgain

SpecTwice == InitCompose /\ [][NextTwice]_vars

(* ----------------------- process_single_page --------------------------- *)

\* source_doc[page_number]: the library counts a negative page number
\* backwards from the end of the document
LoadIndex(pno, n) == IF pno < 0 THEN pno % n ELSE pno

\* the index test made once the source is open
PageIndexOk(pno, n) == ~(pno >= n)

OneOpenSource ==
    /\ call.fn = "composeOne" /\ call.pc = "entry"
    /\ LET r == OpenDocument(call, "source", call.input_path, "check_index",
                             disk, open_handles)
       IN  call' = r.call /\ open_handles' = r.handles
    /\ UNCHANGED <<disk, dirs, ncalls, batch, gui_vars, aux_vars>>

\* a page number past the end closes the source and raises ValueError (the
\* message reads page_count of the document just closed, which the library
\* answers with a ValueError of its own: a ValueError either way)
OneCheckIndex ==
    /\ call.fn = "composeOne" /\ call.pc = "check_index"
    /\ IF PageIndexOk(call.page_number, Len(call.source_doc))
       THEN /\ call' = [call EXCEPT !.pc = "open_template"]
            /\ UNCHANGED open_handles
       ELSE /\ call' = [call EXCEPT !.pc = "returned",
                                    !.exc = Raise("PageIndex", call.input_path)]
            /\ open_handles' = open_handles \ {<<call.id, "source">>}
    /\ UNCHANGED <<disk, dirs, ncalls, batch, gui_vars, aux_vars>>

OneOpenTemplate ==
    /\ call.fn = "composeOne" /\ call.pc = "open_template"
    /\ LET r == OpenDocument(call, "template", call.template_path, "open_output",
                             disk, open_handles)
       IN  call' = r.call /\ open_handles' = r.handles
    /\ UNCHANGED <<disk, dirs, ncalls, batch, gui_vars, aux_vars>>

OneOpenOutput ==
    /\ call.fn = "composeOne" /\ call.pc = "open_output"
    /\ call' = [call EXCEPT !.pc = "body", !.opened = @ \cup {"output"}]
    /\ open_handles' = open_handles \cup {<<call.id, "output">>}
    /\ UNCHANGED <<disk, dirs, ncalls, batch, gui_vars, aux_vars>>

\* The try block.  A negative page number on a document without pages has
\* no page to count back to: the library call does not return a page, which
\* is modelled as the call raising (a call that never returns is the
\* behaviour that stops here).
OneBody ==
    /\ call.fn = "composeOne" /\ call.pc = "body"
    /\ IF Len(call.source_doc) = 0
       THEN /\ call' = [call EXCEPT !.pc = "finally",
                                    !.exc = Raise("CompositionFailure", call.input_path)]
            /\ UNCHANGED <<disk, dirs>>
       ELSE LET p == PlacePage(call, LoadIndex(call.page_number, Len(call.source_doc)))
                r == WriteOutput(p, disk, dirs)
            IN  IF p.exc.kind # "none"
                THEN call' = [p EXCEPT !.pc = "finally"] /\ UNCHANGED <<disk, dirs>>
                ELSE call' = r.call /\ disk' = r.disk /\ dirs' = r.dirs
    /\ UNCHANGED <<open_handles, ncalls, batch, gui_vars, aux_vars>>

OneFinally ==
    /\ call.fn = "composeOne" /\ call.pc = "finally"
    /\ open_handles' = CloseAll(call, open_handles)
    /\ call' = [call EXCEPT !.pc = "returned"]
    /\ UNCHANGED <<disk, dirs, ncalls, batch, gui_vars, aux_vars>>

\* page numbers of a direct call: from one before the first page counted
\* backwards to one past the last page
PageNumbers == (0 - MaxPages - 1)..MaxPages

InitOne ==
    /\ EnvInit
    /\ GuiIdle
    /\ AuxIdle
    /\ ncalls = 1
    /\ \E inp \in InputPaths, tmpl \in TemplatePaths, d \in OutputFolders,
          pno \in PageNumbers :
          call = NewCall("composeOne", 1, inp, tmpl, Path(d, "o.pdf"), {}, pno)

NextOne ==
    \/ OneOpenSource
    \/ OneCheckIndex
    \/ OneOpenTemplate
    \/ OneOpenOutput
    \/ OneBody
    \/ OneFinally

SpecOne == InitOne /\ [][NextOne]_vars

(* ------------------------- the GUI and the batch ----------------------- *)
\* The handlers run on the Tk main loop, one at a time; the batch thread
\* and the preview threads run beside it.  Callbacks scheduled with
\* self.after wait in after_queue for the main loop.

\* the loop of _on_template_selected and save_and_export: the first library
\* file with the selected base name becomes the template, none leaves it
TemplateFor(selected_name, current) ==
    LET hits == {i \in 1..Len(template_files) : basename(template_files[i]) = selected_name}
    IN  IF hits = {} THEN current
        ELSE template_files[CHOOSE i \in hits : \A j \in hits : i <= j]

\* an action of the user is handled: the model follows the program for
\* MaxEvents of them
Handled ==
    /\ handled < MaxEvents
    /\ handled' = handled + 1

\* the user picks another template in the dropdown, at any time (picking
\* the one in effect assigns the same path again)
OnTemplateSelected ==
    /\ Handled
    /\ \E i \in 1..Len(template_files) :
          /\ template_path' = TemplateFor(basename(template_files[i]), template_path)
          /\ template_path' # template_path
    /\ UNCHANGED <<env_vars, call, ncalls, batch, selected_files, exclude_pages_entry,
                   output_path_entry, save_export_btn, after_queue, runs, aux_vars>>

\* the file dialog returns distinct paths, in any order
RECURSIVE Selections(_, _)
Selections(S, n) ==
    IF n = 0 THEN {<<>>}
    ELSE LET shorter == Selections(S, n - 1)
         IN  shorter \cup UNION {{Append(q, x) : x \in {y \in S : \A i \in 1..Len(q) : q[i] # y}}
                                    : q \in shorter}

(* callbacks *)

\* the callbacks of a preview thread
PreviewCallbacks == {"_display_preview", "_show_preview_error"}

\* what the callback a preview thread schedules puts on the canvas
PreviewCallback(cb, shows) == [cb |-> cb, shows |-> shows]

\* the callbacks the batch thread schedules when its loop is over
Callback(cb, b) ==
    [cb |-> cb, successful |-> b.successful, failed |-> b.failed,
     failed_files |-> b.failed_files, output_folder |-> b.output_folder]

\* a callback scheduled 600 ms ahead (the completion message); all others
\* are scheduled with after(0, ...)
IsDelayed(c) == c.cb = "show_batch_complete"

\* queue with x put in behind its first k callbacks
InsertAt(queue, k, x) ==
    SubSeq(queue, 1, k) \o <<x>> \o SubSeq(queue, k + 1, Len(queue))

\* self.after(0, x): Tk keeps the callbacks in the order they are due.  x
\* is due now: behind every callback scheduled with after(0, ...) before it
\* (and whatever stands before these), and before or behind a completion
\* message still in the queue, whose 600 ms may or may not have passed.
ScheduledNow(queue, x) ==
    LET now == {i \in 1..Len(queue) : ~IsDelayed(queue[i])}
        last == IF now = {} THEN 0 ELSE CHOOSE i \in now : \A j \in now : j <= i
    IN  {InsertAt(queue, k, x) : k \in last..Len(queue)}

\* the callback load_preview_async schedules for a file
SizeAndLoad(file_path) == [cb |-> "_get_preview_size_and_load", file_path |-> file_path]

\* a thread that makes a preview: the function it runs and its arguments
\* (_generate_and_display_preview has no page argument: generate_preview_image
\* takes its default, page 0)
PreviewThread(id, target, file_path, page_number) ==
    [id |-> id, target |-> target, file_path |-> file_path,
     page_number |-> page_number]

\* an identifier no running preview thread has
FreeThreadId ==
    CHOOSE k \in 1..(Cardinality(preview_threads) + 1) :
        \A t \in preview_threads : t.id # k

\* The Tk main loop, or the self.update() of a handler, runs the callback
\* that is due next: the button is enabled, the completion message (a
\* dialog, no state of its own) shown, _display_preview puts the image it
\* is given on the canvas or _show_preview_error the error text, and
\* _get_preview_size_and_load starts the thread _generate_and_display_preview
\* for its file.
RunAfter ==
    /\ after_queue # <<>>
    /\ LET c == Head(after_queue)
       IN  /\ save_export_btn' =
                  IF c.cb = "enable_button" THEN "normal" ELSE save_export_btn
           /\ canvas' = IF c.cb \in PreviewCallbacks THEN c.shows ELSE canvas
           /\ preview_threads' =
                  IF c.cb = "_get_preview_size_and_load"
                  THEN preview_threads \cup
                           {PreviewThread(FreeThreadId, "_generate_and_display_preview",
                                          c.file_path, 0)}
                  ELSE preview_threads
    /\ after_queue' = Tail(after_queue)
    /\ UNCHANGED <<env_vars, call, ncalls, batch, selected_files, template_path,
                   exclude_pages_entry, output_path_entry, runs, first_call, tokens,
                   excluded_indices, fit, current_file_index, current_page_index,
                   current_file_page_count, update_stack, handled>>

(* navigation and the page preview *)

\* pdf_utils.get_page_count: 0 for a file that cannot be opened
get_page_count(file_path) ==
    IF Openable(file_path, disk) THEN Len(disk[file_path].pages) ELSE 0

\* pdf_utils.generate_preview_image: the image of the page, or None (the
\* empty sequence) for a file that cannot be opened, has no pages or lacks
\* the page
generate_preview_image(file_path, page_number) ==
    IF Openable(file_path, disk) /\ Len(disk[file_path].pages) > 0
          /\ page_number >= 0 /\ page_number < Len(disk[file_path].pages)
    THEN <<Image(file_path, page_number)>>
    ELSE <<>>

\* a handler waiting in self.update(), with the local file_path of
\* _load_current_preview
Frame(handler, file_path) == [handler |-> handler, file_path |-> file_path]

\* _load_current_preview up to its self.update(), for the file index just
\* set: the path of the current file is taken, the loading message shown
_load_current_preview(files, file_index) ==
    /\ canvas' = Message("loading")
    /\ update_stack' = Append(update_stack,
                              Frame("_load_current_preview", files[file_index + 1]))

NavFrame ==
    UNCHANGED <<env_vars, call, ncalls, batch, template_path, exclude_pages_entry,
                output_path_entry, save_export_btn, after_queue, runs, first_call,
                tokens, excluded_indices, fit, preview_threads>>

\* The file dialog returned at least one path (nothing happens otherwise):
\* the handler up to its self.update().  Like every handler it runs when
\* the main loop serves events, also inside the self.update() of a handler
\* that is waiting.
select_pdf ==
    /\ Handled
    /\ \E file_paths \in Selections(SelectablePaths, MaxFiles) \ {<<>>} :
          /\ selected_files' = file_paths
          /\ current_file_page_count' = get_page_count(file_paths[1])
    /\ current_file_index' = 0
    /\ current_page_index' = 0
    /\ canvas' = Message("loading")
    /\ update_stack' = Append(update_stack, Frame("select_pdf", NoPath))
    /\ NavFrame

_prev_file ==
    /\ Handled
    /\ current_file_index > 0
    /\ current_file_index' = current_file_index - 1
    /\ current_page_index' = 0
    /\ current_file_page_count' = get_page_count(selected_files[current_file_index])
    /\ _load_current_preview(selected_files, current_file_index - 1)
    /\ UNCHANGED selected_files
    /\ NavFrame

\* variant of _next_file: the page index is kept
_next_file_keeps_page ==
    /\ Handled
    /\ current_file_index < Len(selected_files) - 1
    /\ current_file_index' = current_file_index + 1
    /\ current_page_index' = current_page_index
    /\ current_file_page_count' = get_page_count(selected_files[current_file_index + 2])
    /\ _load_current_preview(selected_files, current_file_index + 1)
    /\ UNCHANGED selected_files
    /\ NavFrame

_next_file ==
    /\ Handled
    /\ current_file_index < Len(selected_files) - 1
    /\ current_file_index' = current_file_index + 1
    /\ current_page_index' = 0
    /\ current_file_page_count' = get_page_count(selected_files[current_file_index + 2])
    /\ _load_current_preview(selected_files, current_file_index + 1)
    /\ UNCHANGED selected_files
    /\ NavFrame

_prev_page ==
    /\ Handled
    /\ current_page_index > 0
    /\ current_page_index' = current_page_index - 1
    /\ _load_current_preview(selected_files, current_file_index)
    /\ UNCHANGED <<selected_files, current_file_index, current_file_page_count>>
    /\ NavFrame

_next_page ==
    /\ Handled
    /\ current_page_index < current_file_page_count - 1
    /\ current_page_index' = current_page_index + 1
    /\ _load_current_preview(selected_files, current_file_index)
    /\ UNCHANGED <<selected_files, current_file_index, current_file_page_count>>
    /\ NavFrame

\* self.update() of the handler that called it last returns, nothing being
\* due any more (a completion message may still be ahead).  select_pdf goes
\* on into _load_current_preview, up to the self.update() there;
\* _load_current_preview starts the thread with the path it took before
\* the update and the page index as it is now.
update_returns ==
    /\ update_stack # <<>>
    /\ \A i \in 1..Len(after_queue) : IsDelayed(after_queue[i])
    /\ LET frame == update_stack[Len(update_stack)]
           waiting == SubSeq(update_stack, 1, Len(update_stack) - 1)
       IN  IF frame.handler = "select_pdf"
           THEN /\ canvas' = Message("loading")
                /\ update_stack' =
                       Append(waiting, Frame("_load_current_preview",
                                             selected_files[current_file_index + 1]))
                /\ UNCHANGED preview_threads
           ELSE /\ preview_threads' = preview_threads \cup
                       {PreviewThread(FreeThreadId, "_generate_and_display_preview_page",
                                      frame.file_path, current_page_index)}
                /\ update_stack' = waiting
                /\ UNCHANGED canvas
    /\ UNCHANGED <<env_vars, call, ncalls, batch, gui_vars, first_call, tokens,
                   excluded_indices, fit, current_file_index, current_page_index,
                   current_file_page_count, handled>>

\* a preview thread ends: the image is handed to _display_preview, a failure
\* to _show_preview_error, by self.after(0, ...)
_generate_and_display_preview_page ==
    /\ \E t \in preview_threads :
          LET pil_image == generate_preview_image(t.file_path, t.page_number)
          IN  /\ t.target = "_generate_and_display_preview_page"
              /\ preview_threads' = preview_threads \ {t}
              /\ after_queue' \in ScheduledNow(after_queue,
                     IF pil_image = <<>>
                     THEN PreviewCallback("_show_preview_error", Message("error"))
                     ELSE PreviewCallback("_display_preview", pil_image[1]))
    /\ UNCHANGED <<env_vars, call, ncalls, batch, selected_files, template_path,
                   exclude_pages_entry, output_path_entry, save_export_btn, runs,
                   first_call, tokens, excluded_indices, fit, current_file_index,
                   current_page_index, current_file_page_count, canvas, update_stack,
                   handled>>

\* the application after construction
InitNav ==
    /\ EnvInit
    /\ GuiIdle
    /\ AuxIdle
    /\ call = IdleCall
    /\ ncalls = 0

\* the steps of the navigation and of the preview
NavStep ==
    \/ _prev_file
    \/ _next_file
    \/ _prev_page
    \/ _next_page
    \/ update_returns
    \/ _generate_and_display_preview_page

NextNav ==
    \/ select_pdf
    \/ NavStep
    \/ RunAfter

SpecNav == InitNav /\ [][NextNav]_vars

(* the preview methods nothing calls *)
\* load_preview_async and update_preview_message are public methods of the
\* application that no widget is bound to and no code of the repository
\* calls; SpecApi is the navigation with calls of them from outside.

\* load_preview_async(file_path), for any path: the call schedules
\* _get_preview_size_and_load and returns; nothing of the selection is read
load_preview_async ==
    /\ Handled
    /\ \E file_path \in SelectablePaths :
          after_queue' \in ScheduledNow(after_queue, SizeAndLoad(file_path))
    /\ UNCHANGED <<env_vars, call, ncalls, batch, selected_files, template_path,
                   exclude_pages_entry, output_path_entry, save_export_btn, runs,
                   first_call, tokens, excluded_indices, fit, nav_vars>>

\* the thread _get_preview_size_and_load has started ends: the image of the
\* first page is handed to _display_preview, a failure to
\* _show_preview_error, by self.after(0, ...)
_generate_and_display_preview ==
    /\ \E t \in preview_threads :
          LET pil_image == generate_preview_image(t.file_path, 0)
          IN  /\ t.target = "_generate_and_display_preview"
              /\ preview_threads' = preview_threads \ {t}
              /\ after_queue' \in ScheduledNow(after_queue,
                     IF pil_image = <<>>
                     THEN PreviewCallback("_show_preview_error", Message("error"))
                     ELSE PreviewCallback("_display_preview", pil_image[1]))
    /\ UNCHANGED <<env_vars, call, ncalls, batch, selected_files, template_path,
                   exclude_pages_entry, output_path_entry, save_export_btn, runs,
                   first_call, tokens, excluded_indices, fit, current_file_index,
                   current_page_index, current_file_page_count, canvas, update_stack,
                   handled>>

\* the texts update_preview_message is called with
PreviewMessages == {"Please wait"}

\* update_preview_message(message): the canvas shows the text
update_preview_message ==
    /\ Handled
    /\ \E message \in PreviewMessages : canvas' = Message(message)
    /\ UNCHANGED <<env_vars, call, ncalls, batch, selected_files, template_path,
                   exclude_pages_entry, output_path_entry, save_export_btn,
                   after_queue, runs, first_call, tokens, excluded_indices, fit,
                   current_file_index, current_page_index, current_file_page_count,
                   preview_threads, update_stack>>

NextApi ==
    \/ NextNav
    \/ load_preview_async
    \/ _generate_and_display_preview
    \/ update_preview_message

SpecApi == InitNav /\ [][NextApi]_vars

(* the batch *)

\* the folders the folder dialog of "Browse" returns
BrowsedFolders == {"out"}

\* "Browse": the chosen folder replaces the text of the output entry
\* (nothing happens when the dialog is cancelled)
_browse_output_folder ==
    /\ Handled
    /\ \E folder_path \in BrowsedFolders :
          /\ output_path_entry # <<folder_path>>
          /\ output_path_entry' = <<folder_path>>
    /\ UNCHANGED <<env_vars, call, ncalls, batch, selected_files, template_path,
                   exclude_pages_entry, save_export_btn, after_queue, runs, aux_vars>>

\* "Process & Save": without selected files, or without templates in the
\* library, only a warning is shown; the dropdown always shows the base
\* name of template_path, both being set together; a disabled button takes
\* no click.  b is the frame the batch thread starts with.
StartBatchThread(b) ==
    /\ Handled
    /\ save_export_btn = "normal"
    /\ runs < MaxRuns
    /\ selected_files # <<>>
    /\ template_files # <<>>
    /\ template_path' = TemplateFor(basename(template_path), template_path)
    /\ save_export_btn' = "disabled"
    /\ batch' = b
    /\ runs' = runs + 1
    /\ UNCHANGED <<env_vars, call, ncalls, selected_files, exclude_pages_entry,
                   output_path_entry, after_queue, aux_vars>>

save_and_export == StartBatchThread([IdleBatch EXCEPT !.pc = "start"])

\* the pieces of a text as one string
RECURSIVE Joined(_)
Joined(pieces) ==
    IF pieces = <<>> THEN "" ELSE Head(pieces) \o Joined(Tail(pieces))

\* the output folder named by the text of the entry field: the text is
\* stripped, the default stands in for an empty one, anything else is the
\* path of one folder.  The text is a sequence of pieces, a piece being a
\* whitespace character or a folder path.
OutputFolderOf(entry) ==
    LET output_folder_str == Joined(Strip(entry))
    IN  IF output_folder_str = "" THEN DefaultOutputFolder ELSE output_folder_str

\* the same click, with the template path it leaves in effect and the
\* output folder the entry names at the click noted in the thread's frame
save_and_export_noted ==
    StartBatchThread([IdleBatch EXCEPT
                         !.pc = "start",
                         !.template_at_start =
                             TemplateFor(basename(template_path), template_path),
                         !.folder_at_start = OutputFolderOf(output_path_entry)])

\* texts of the exclusion field: "", "1-9", "x,2"
ExcludeEntries ==
    { <<>>, <<"1", "-", "9">>, <<"x", ",", "2">> }

\* parse_page_range on each text the exclusion field can hold
ExclusionOf == [entry \in ExcludeEntries |-> parse_page_range(entry)]

\* The thread's prologue.  Its reads of the GUI happen one by one, and
\* handlers run in between.  First total_files is read from
\* self.selected_files and the counters are set.
BatchCount ==
    /\ batch.pc = "start"
    /\ batch' = [batch EXCEPT !.pc = "read_exclude",
                              !.total_files = Len(selected_files),
                              !.successful = 0, !.failed = 0, !.failed_files = <<>>]
    /\ UNCHANGED <<env_vars, call, ncalls, gui_vars, aux_vars>>

\* the exclusion text is read and parsed, once
BatchReadExclude ==
    /\ batch.pc = "read_exclude"
    /\ batch' = [batch EXCEPT !.pc = "read_folder",
                              !.excluded_pages = ExclusionOf[exclude_pages_entry]]
    /\ UNCHANGED <<env_vars, call, ncalls, gui_vars, aux_vars>>

\* the text of the output entry is read
BatchReadFolder ==
    /\ batch.pc = "read_folder"
    /\ batch' = [batch EXCEPT !.pc = "mkdir",
                              !.output_folder = OutputFolderOf(output_path_entry)]
    /\ UNCHANGED <<env_vars, call, ncalls, gui_vars, aux_vars>>

\* the output folder is created; a folder that cannot be created raises
\* outside any try block and ends the thread
BatchMkdir ==
    /\ batch.pc = "mkdir"
    /\ IF MkdirOk(batch.output_folder, dirs)
       THEN /\ dirs' = dirs \cup {batch.output_folder}
            /\ batch' = [batch EXCEPT !.pc = "enumerate"]
       ELSE /\ dirs' = dirs
            /\ batch' = [batch EXCEPT !.pc = "crashed"]
    /\ UNCHANGED <<disk, open_handles, call, ncalls, gui_vars, aux_vars>>

\* the for statement reads self.selected_files again: the list the loop
\* iterates is the one selected at this moment
BatchEnumerate ==
    /\ batch.pc = "enumerate"
    /\ batch' = [batch EXCEPT !.pc = "loop", !.idx = 1, !.files = selected_files]
    /\ UNCHANGED <<env_vars, call, ncalls, gui_vars, aux_vars>>

\* the steps of the prologue
BatchPrologue ==
    \/ BatchCount
    \/ BatchReadExclude
    \/ BatchReadFolder
    \/ BatchMkdir
    \/ BatchEnumerate

\* the contents of self.project_data: the form empty or filled in
ProjectForms == {EmptyForm, FilledForm}

\* the arguments the loop passes to process_with_margins for file_path
JobFor(file_path, tmpl, folder, excl, project_data, id) ==
    [NewCall("compose", id, file_path, tmpl,
             Path(folder, OutputName(basename(file_path))), excl, 0)
        EXCEPT !.project_data = <<project_data>>]

\* the loop takes the next file and calls process_with_margins with the
\* template path the GUI holds at this moment and with self.project_data
\* as the form fills it at this moment
BatchCall ==
    /\ batch.pc = "loop"
    /\ batch.idx <= Len(batch.files)
    /\ \E project_data \in ProjectForms :
          call' = JobFor(batch.files[batch.idx], template_path, batch.output_folder,
                         batch.excluded_pages, project_data, ncalls + 1)
    /\ ncalls' = ncalls + 1
    /\ batch' = [batch EXCEPT !.pc = "in_job",
                              !.attempts = Append(@, batch.files[batch.idx])]
    /\ UNCHANGED <<env_vars, gui_vars, aux_vars>>

\* variant of BatchAfterJob: the first failure ends the loop
BatchAfterJobAbort(b, filename, raised) ==
    IF raised
    THEN [b EXCEPT !.failed = @ + 1, !.failed_files = Append(@, filename),
                   !.idx = Len(b.files) + 1]
    ELSE [b EXCEPT !.successful = @ + 1, !.idx = @ + 1]

\* variant of BatchAfterJob: a failure is counted, its file name not recorded
BatchAfterJobCountOnly(b, filename, raised) ==
    IF raised THEN [b EXCEPT !.failed = @ + 1, !.idx = @ + 1]
    ELSE [b EXCEPT !.successful = @ + 1, !.idx = @ + 1]

\* the counters after the call for filename returned or raised
BatchAfterJob(b, filename, raised) ==
    IF raised
    THEN [b EXCEPT !.failed = @ + 1, !.failed_files = Append(@, filename),
                   !.idx = @ + 1]
    ELSE [b EXCEPT !.successful = @ + 1, !.idx = @ + 1]

\* the frame of the call is kept
KeepFrame(c, handles) == handles

\* The frame of the call is released: after a normal return at once, after
\* an exception when the except clause ends and the exception, its
\* traceback and the frame it refers to are dropped.  The documents the
\* frame's locals still refer to are destroyed with it, which closes them.
ReleaseFrame(c, handles) == {h \in handles : h[1] # c.id}

\* the call is over: try/except Exception around it, up to the end of the
\* iteration
BatchReturn ==
    /\ batch.pc = "in_job"
    /\ call.pc = "returned"
    /\ LET did_raise == call.exc.kind # "none"
           b == BatchAfterJob(batch, basename(call.input_path), did_raise)
       IN  batch' = [b EXCEPT !.pc = "loop", !.raised = Append(@, did_raise)]
    /\ open_handles' = ReleaseFrame(call, open_handles)
    /\ call' = IdleCall
    /\ UNCHANGED <<disk, dirs, ncalls, gui_vars, aux_vars>>

\* after the loop the completion message is scheduled 600 ms ahead: it is
\* due behind everything scheduled so far
BatchScheduleComplete ==
    /\ batch.pc = "loop"
    /\ batch.idx > Len(batch.files)
    /\ after_queue' = Append(after_queue, Callback("show_batch_complete", batch))
    /\ batch' = [batch EXCEPT !.pc = "enable"]
    /\ UNCHANGED <<env_vars, call, ncalls, selected_files, template_path,
                   exclude_pages_entry, output_path_entry, save_export_btn, runs, handled,
                   aux_vars>>

\* then the re-enabling of the button is scheduled with after(0, ...), and
\* the thread ends
BatchScheduleEnable ==
    /\ batch.pc = "enable"
    /\ after_queue' \in ScheduledNow(after_queue, Callback("enable_button", batch))
    /\ batch' = [batch EXCEPT !.pc = "done"]
    /\ UNCHANGED <<env_vars, call, ncalls, selected_files, template_path,
                   exclude_pages_entry, output_path_entry, save_export_btn, runs, handled,
                   aux_vars>>

\* the steps of the thread from its for statement on
BatchLoop ==
    \/ BatchCall
    \/ ComposeStep
    \/ BatchReturn
    \/ BatchScheduleComplete
    \/ BatchScheduleEnable

\* texts of the output folder field: a blank and an ogham space mark, "ro"
\* after a blank, "nocreate"
OutputEntries == { <<" ", " ">>, <<" ", "ro">>, <<"nocreate">> }

\* the application after start-up, with the two entry fields as the user
\* has filled them in; no file is selected yet and the dropdown shows the
\* first template of the library
Init ==
    /\ EnvInit
    /\ AuxIdle
    /\ call = IdleCall
    /\ ncalls = 0
    /\ batch = IdleBatch
    /\ selected_files = <<>>
    /\ template_path = template_files[1]
    /\ exclude_pages_entry \in ExcludeEntries
    /\ output_path_entry \in OutputEntries
    /\ save_export_btn = "normal"
    /\ after_queue = <<>>
    /\ runs = 0
    /\ handled = 0

Next ==
    \/ select_pdf
    \/ NavStep
    \/ OnTemplateSelected
    \/ _browse_output_folder
    \/ save_and_export
    \/ BatchPrologue
    \/ BatchLoop
    \/ RunAfter

Spec == Init /\ [][Next]_vars

\* The batch under the scheduling the program runs with: the batch thread,
\* once started, is scheduled until it ends, and the Tk main loop runs every
\* callback that is due.
BatchThreadStep ==
    \/ BatchPrologue
    \/ BatchLoop

SpecLive ==
    /\ Init
    /\ [][Next]_vars
    /\ WF_vars(BatchThreadStep)
    /\ WF_vars(RunAfter)

\* the batch with the template path of the click noted
NextNoted ==
    \/ select_pdf
    \/ NavStep
    \/ OnTemplateSelected
    \/ _browse_output_folder
    \/ save_and_export_noted
    \/ BatchPrologue
    \/ BatchLoop
    \/ RunAfter

SpecNoted == Init /\ [][NextNoted]_vars

(* the loop of the batch thread on its own *)

\* texts the output folder field holds when the thread's prologue has
\* created the folder they name
LoopOutputEntries ==
    {entry \in OutputEntries \cup {<<folder_path>> : folder_path \in BrowsedFolders} :
        MkdirOk(OutputFolderOf(entry), InitDirs)}

\* The batch thread at its for statement, in the first batch since
\* start-up: the files were selected (their first page is being loaded for
\* the preview), the button was clicked and is disabled, the prologue has
\* parsed the exclusion text and created the output folder, and the for
\* statement has taken the list.  The actions of the user are counted from
\* here.
InitLoop ==
    /\ disk = InitDisk
    /\ open_handles = {}
    /\ call = IdleCall
    /\ ncalls = 0
    /\ first_call = IdleCall
    /\ tokens = NoTokens
    /\ excluded_indices = <<>>
    /\ fit = NoFit
    /\ template_path \in {template_files[i] : i \in 1..Len(template_files)}
    /\ exclude_pages_entry \in ExcludeEntries
    /\ output_path_entry \in LoopOutputEntries
    /\ selected_files \in Selections(SelectablePaths, MaxFiles) \ {<<>>}
    /\ dirs = InitDirs \cup {OutputFolderOf(output_path_entry)}
    /\ batch = [IdleBatch EXCEPT !.pc = "loop", !.idx = 1,
                                 !.files = selected_files,
                                 !.total_files = Len(selected_files),
                                 !.excluded_pages = ExclusionOf[exclude_pages_entry],
                                 !.output_folder = OutputFolderOf(output_path_entry)]
    /\ save_export_btn = "disabled"
    /\ after_queue = <<>>
    /\ runs = 1
    /\ current_file_index = 0
    /\ current_page_index = 0
    /\ current_file_page_count = get_page_count(selected_files[1])
    /\ preview_threads = {PreviewThread(1, "_generate_and_display_preview_page",
                                        selected_files[1], 0)}
    /\ canvas = Message("loading")
    /\ update_stack = <<>>
    /\ handled = 0

\* the steps of the thread from the for statement on, the callbacks it
\* schedules, the end of the preview thread of the selection, and the
\* dropdown, which the loop reads before every call; the loop reads nothing
\* else of the GUI but the form (in BatchCall)
NextLoop ==
    \/ OnTemplateSelected
    \/ _generate_and_display_preview_page
    \/ BatchLoop
    \/ RunAfter

SpecLoop == InitLoop /\ [][NextLoop]_vars


(* ------------------- parse_page_range on typed texts ------------------- *)

\* str(n) of a number n >= 0, as the user types it
RECURSIVE Decimal(_)
Decimal(n) ==
    IF n < 10 THEN <<Digits[n + 1]>>
    ELSE Decimal(n \div 10) \o <<Digits[(n % 10) + 1]>>

\* the tokens of the exclusion field: a single page number, a range a-b, or
\* a text that is neither
Single(a) == [kind |-> "single", a |-> a, b |-> a, text |-> Decimal(a)]

Range(a, b) ==
    [kind |-> "range", a |-> a, b |-> b, text |-> Decimal(a) \o <<"-">> \o Decimal(b)]

Bad(text) == [kind |-> "bad", a |-> 0, b |-> 0, text |-> text]

\* texts that are no page token: abc, 1-2-3, -1, 2-x, 1.5
BadTexts ==
    { <<"a", "b", "c">>, <<"1", "-", "2", "-", "3">>, <<"-", "1">>,
      <<"2", "-", "x">>, <<"1", ".", "5">> }

Tokens ==
    {Single(a) : a \in 0..MaxNum}
        \cup {Range(a, b) : a \in 0..MaxNum, b \in 0..MaxNum}
        \cup {Bad(t) : t \in BadTexts}

\* token lists of the function's documentation and of its error handling:
\* "1", "1,3", "1,3-5", "2-4,7,9-10", "5-3", "abc,2", page 10 typed with a
\* digit-group underscore, "1_0", and pages typed with digits of another
\* script: page 3, pages 1 and 3, pages 3 to 5, page 13
ExampleLists ==
    { <<Single(1)>>, <<Single(1), Single(3)>>, <<Single(1), Range(3, 5)>>,
      <<Range(2, 4), Single(7), Range(9, 10)>>, <<Range(5, 3)>>,
      <<Bad(<<"a", "b", "c">>), Single(2)>>,
      <<[Single(10) EXCEPT !.text = <<"1", "_", "0">>]>>,
      <<[Single(3) EXCEPT !.text = <<"۳">>]>>,
      <<Single(1), [Single(3) EXCEPT !.text = <<"۳">>]>>,
      <<[Range(3, 5) EXCEPT !.text = <<"۳", "-", "5">>]>>,
      <<[Single(13) EXCEPT !.text = <<"1", "৩">>]>> }

RECURSIVE TokenLists(_)
TokenLists(n) ==
    IF n = 0 THEN {<<>>}
    ELSE LET shorter == TokenLists(n - 1)
         IN  shorter \cup {Append(l, t) : l \in shorter, t \in Tokens}

\* a token with or without whitespace on either side: a blank, a no-break
\* space and an ogham space mark before it, a tab, a vertical tab and an
\* ogham space mark after it
Padded(text, pad) ==
    IF pad THEN <<" ", " ", " ">> \o text \o <<"\t", "", " ">>
    ELSE text

\* the text of the exclusion field for a token list: the tokens joined by
\* commas, every token padded or none
RECURSIVE Typed(_, _)
Typed(list, pad) ==
    IF list = <<>> THEN Padded(<<>>, pad)
    ELSE IF Len(list) = 1 THEN Padded(list[1].text, pad)
    ELSE Padded(list[1].text, pad) \o <<",">> \o Typed(Tail(list), pad)

\* the exclusion field holds a typed text; nothing else has happened
InitParse ==
    /\ EnvInit
    /\ call = IdleCall
    /\ ncalls = 0
    /\ batch = IdleBatch
    /\ selected_files = <<>>
    /\ template_path = template_files[1]
    /\ output_path_entry = <<DefaultOutputFolder>>
    /\ save_export_btn = "normal"
    /\ after_queue = <<>>
    /\ runs = 0
    /\ handled = 0
    /\ first_call = IdleCall
    /\ \E list \in TokenLists(MaxTokens) \cup ExampleLists, pad \in BOOLEAN :
          /\ tokens = [list |-> list, pad |-> pad]
          /\ exclude_pages_entry = Typed(list, pad)
    /\ excluded_indices = <<>>
    /\ fit = NoFit
    /\ NavIdle

\* excluded_pages = parse_page_range(self.exclude_pages_entry.get())
ParseEntry ==
    /\ excluded_indices = <<>>
    /\ excluded_indices' = <<parse_page_range(exclude_pages_entry)>>
    /\ UNCHANGED <<env_vars, call, ncalls, batch, gui_vars, first_call, tokens, fit,
                   nav_vars>>

NextParse == ParseEntry

SpecParse == InitParse /\ [][NextParse]_vars

(* ---------------- placing a source page in the safe zone --------------- *)
\* The placement is computed by the library from the arguments of
\* show_pdf_page.  Sizes are exact fractions n/d of a length unit of 50
\* millionths of a point, which divides the sides of the safe zone.

FitUnit == 50

Frac(n, d) == [n |-> n, d |-> d]

RectWidth(r) == (r.x1 - r.x0) \div FitUnit

RectHeight(r) == (r.y1 - r.y0) \div FitUnit

\* the size at which show_pdf_page(rect, src, pno, keep_proportion) shows a
\* source page of w x h: the page is scaled by rect.width / w horizontally
\* and rect.height / h vertically, and with keep_proportion by the smaller
\* of the two factors in both directions
ShownSize(rect, w, h, keep_proportion) ==
    LET rw == RectWidth(rect)
        rh == RectHeight(rect)
    IN  IF ~keep_proportion THEN [width |-> Frac(rw, 1), height |-> Frac(rh, 1)]
        ELSE IF rw * h <= rh * w
        THEN [width |-> Frac(rw, 1), height |-> Frac(rw * h, w)]
        ELSE [width |-> Frac(rh * w, h), height |-> Frac(rh, 1)]

\* variant of SourcePlacement: keep_proportion is not asked for
SourcePlacementStretched(w, h) == ShownSize(get_safe_zone_rect, w, h, FALSE)

\* output_page.show_pdf_page(safe_zone, source_doc, page_num,
\* keep_proportion=True) for a source page of w x h
SourcePlacement(w, h) == ShownSize(get_safe_zone_rect, w, h, TRUE)

\* a source page of some size is about to be placed; nothing else happens
InitFit ==
    /\ EnvInit
    /\ GuiIdle
    /\ call = IdleCall
    /\ ncalls = 0
    /\ first_call = IdleCall
    /\ tokens = NoTokens
    /\ excluded_indices = <<>>
    /\ NavIdle
    /\ \E w \in 1..MaxSide, h \in 1..MaxSide : fit = [w |-> w, h |-> h, shown |-> <<>>]

PlaceSourcePage ==
    /\ fit.shown = <<>>
    /\ fit' = [fit EXCEPT !.shown = <<SourcePlacement(fit.w, fit.h)>>]
    /\ UNCHANGED <<env_vars, call, ncalls, batch, gui_vars, first_call, tokens,
                   excluded_indices, nav_vars>>

NextFit == PlaceSourcePage

SpecFit == InitFit /\ [][NextFit]_vars

(* ------------------------------ properties ----------------------------- *)

\* the working page set of an n-page source under exclusion set excl
WorkingSet(n, excl) == (0..(n - 1)) \ excl

\* the k-th smallest element of a finite set of integers
KthSmallest(S, k) == CHOOSE x \in S : Cardinality({y \in S : y < x}) = k - 1

PageCount(p) == Len(disk[p].pages)

Returned(fn) == call.fn = fn /\ call.pc = "returned"

StillOpen(doc) == <<call.id, doc>> \in open_handles

\* the base names of the files whose call raised, in list order
RECURSIVE FailedNames(_, _)
FailedNames(fs, rs) ==
    IF fs = <<>> \/ rs = <<>> THEN <<>>
    ELSE (IF Head(rs) THEN <<basename(Head(fs))>> ELSE <<>>)
             \o FailedNames(Tail(fs), Tail(rs))

\* C1: in a batch every file of the list is attempted exactly once and in
\* list order: the calls made so far are always a prefix of the list, and
\* when the loop is over they are the whole list, whatever the calls raised.
C1_EveryFileAttemptedInOrder ==
    /\ batch.pc \in {"loop", "in_job", "done"} =>
          /\ Len(batch.attempts) <= Len(batch.files)
          /\ batch.attempts = SubSeq(batch.files, 1, Len(batch.attempts))
    /\ batch.pc = "done" => batch.attempts = batch.files

\* a batch is over whose first call raised and whose second file was attempted
C1_Witness ==
    /\ batch.pc = "done"
    /\ Len(batch.files) >= 2
    /\ batch.raised[1]
    /\ Len(batch.attempts) = Len(batch.files)

\* C2: when the loop is over, successful + failed is the number of files,
\* the failed list has failed entries, and they are the base names of exactly
\* the files whose call raised, in input order.
C2_CountsAndFailedList ==
    batch.pc = "done" =>
        /\ Len(batch.raised) = Len(batch.files)
        /\ batch.successful + batch.failed = Len(batch.files)
        /\ Len(batch.failed_files) = batch.failed
        /\ batch.failed_files = FailedNames(batch.files, batch.raised)

\* a batch is over in which a missing file failed and another file succeeded
C2_Witness ==
    /\ batch.pc = "done"
    /\ batch.failed = 1
    /\ batch.successful >= 1
    /\ \E i \in 1..Len(batch.files) :
          batch.raised[i] /\ ~Exists(batch.files[i], disk)

\* C3: every document handle a call has opened is closed when the call
\* exits, also when only some of the three documents were opened.
C3_OpenedHandlesClosedOnExit ==
    call.pc = "returned" => \A doc \in call.opened : ~StillOpen(doc)

\* C4: once compose has opened its three documents, all three are closed
\* when it exits: after a normal completion, after the early return of an
\* empty working set, and after an exception in cleaning, placing or writing.
C4_TripleClosedOnExit ==
    (Returned("compose") /\ call.opened = Docs) => \A doc \in Docs : ~StillOpen(doc)

\* compose has exited with an exception raised while all three were open
C4_Witness ==
    /\ Returned("compose")
    /\ call.opened = Docs
    /\ call.exc.kind \in {"CompositionFailure", "WriteFailure"}
    /\ open_handles = {}

\* a PDF with at least one page, none of which makes a library call raise
Sound(p) ==
    /\ Openable(p, InitDisk)
    /\ InitDisk[p].pages # <<>>
    /\ \A i \in 1..Len(InitDisk[p].pages) : InitDisk[p].pages[i].bad = "none"

\* C5: composeOne, given a sound source, an openable template and an output
\* folder that can be written, raises the page-index error and writes no
\* output exactly when the page number is negative or not below the
\* source's page count.
C5_PageIndexErrorIffOutOfRange ==
    (Returned("composeOne") /\ Sound(call.input_path)
                            /\ Openable(call.template_path, InitDisk)
                            /\ call.output_path.dir \notin ReadOnlyDirs \cup UncreatableDirs) =>
        LET out_of_range == call.page_number < 0
                               \/ call.page_number >= PageCount(call.input_path)
        IN  /\ out_of_range <=> call.exc.kind = "PageIndex"
            /\ out_of_range => disk[call.output_path] = InitDisk[call.output_path]

\* C6: compose with a missing input or template path raises the not-found
\* error naming a missing path (the input path when that is missing, else
\* the template path), and has opened no document when it fails.
C6_NotFoundBeforeAnyOpen ==
    (Returned("compose") /\ (~Exists(call.input_path, disk)
                                \/ ~Exists(call.template_path, disk))) =>
        /\ call.exc.kind = "NotFound"
        /\ call.exc.path = IF ~Exists(call.input_path, disk) THEN call.input_path
                           ELSE call.template_path
        /\ call.opened = {}
        /\ open_handles = {}

\* compose has failed on a missing template with the input present
C6_Witness ==
    /\ Returned("compose")
    /\ Exists(call.input_path, disk)
    /\ ~Exists(call.template_path, disk)
    /\ call.exc = Raise("NotFound", call.template_path)

\* C7: composeOne with a sound source, a page number of that source and a
\* missing template path fails before any document is opened.
C7_OneFailsBeforeAnyOpen ==
    (Returned("composeOne") /\ Sound(call.input_path)
                            /\ call.page_number \in 0..(PageCount(call.input_path) - 1)
                            /\ ~Exists(call.template_path, disk)) =>
        call.exc.kind # "none" /\ call.opened = {}

\* C8: compose on openable documents whose working page set is empty returns
\* without raising, with the warning emitted, the output file not written
\* and the output's parent folder not created.
C8_EmptyWorkingSetIsNoOp ==
    (Returned("compose") /\ Openable(call.input_path, disk)
                         /\ Openable(call.template_path, disk)
                         /\ WorkingSet(PageCount(call.input_path), call.excluded_pages) = {}) =>
        /\ call.exc = NoExc
        /\ call.warned
        /\ disk = InitDisk
        /\ dirs = InitDirs

\* compose has returned after every page of a source with pages was
\* excluded, the output's parent folder not existing
C8_Witness ==
    /\ Returned("compose")
    /\ PageCount(call.input_path) > 0
    /\ (0..(PageCount(call.input_path) - 1)) \subseteq call.excluded_pages
    /\ call.opened = Docs
    /\ call.warned
    /\ call.output_path.dir \notin dirs

\* C9: the batch never records a job that ended as an empty result as a
\* failure: the step that takes such a job's return leaves the failure count
\* and the failed list as they were.
C9_EmptyResultNotAFailure ==
    [][(batch.pc = "in_job" /\ call.pc = "returned" /\ call.warned
            /\ batch'.pc = "loop")
        => (batch'.failed = batch.failed
            /\ batch'.failed_files = batch.failed_files)]_vars

\* a batch is over without failure in which a job excluded every page of a
\* source with pages
C9_Witness ==
    /\ batch.pc = "done"
    /\ batch.failed = 0
    /\ batch.failed_files = <<>>
    /\ \E i \in 1..Len(batch.files) :
          /\ PageCount(batch.files[i]) > 0
          /\ WorkingSet(PageCount(batch.files[i]), batch.excluded_pages) = {}
          /\ ~batch.raised[i]

\* C10: a compose that returns normally with pages processed has written an
\* output document with as many pages as the working set has indices, its
\* k-th page built from the k-th smallest index of the working set.
C10_OutputIsWorkingSetInOrder ==
    (Returned("compose") /\ call.exc = NoExc /\ ~call.warned) =>
        LET W == WorkingSet(PageCount(call.input_path), call.excluded_pages)
            out == disk[call.output_path].pages
        IN  /\ disk[call.output_path].kind = "pdf"
            /\ Len(out) = Cardinality(W)
            /\ \A k \in 1..Len(out) : out[k].src = KthSmallest(W, k)

\* compose has written an output from which a page of the source is excluded
C10_Witness ==
    /\ Returned("compose")
    /\ call.exc = NoExc
    /\ \E e \in call.excluded_pages : e < PageCount(call.input_path) - 1
    /\ Len(disk[call.output_path].pages) >= 1
    /\ Len(disk[call.output_path].pages) < PageCount(call.input_path)

\* what a returned call of compose leaves behind: the exception raised, the
\* warning, the output document built and the output file on disk
Outcome(c) ==
    [exc |-> c.exc.kind, warned |-> c.warned, output_doc |-> c.output_doc,
     file |-> disk[c.output_path]]

\* C11: exclusion indices at or beyond the source page count have no
\* effect: a compose whose exclusion set is that of an earlier compose of
\* the same input restricted to 0..N-1 ends with the same outcome.
C11_OutOfRangeExclusionsNoEffect ==
    (Returned("compose") /\ first_call.fn = "compose"
        /\ call.excluded_pages =
              first_call.excluded_pages \cap (0..(PageCount(call.input_path) - 1))) =>
        Outcome(call) = Outcome(first_call)

\* two composes have written an output, the first with an exclusion set
\* holding an index past the last page and an index of a page, the second
\* with only the index of the page
C11_Witness ==
    /\ Returned("compose")
    /\ first_call.fn = "compose"
    /\ \E e \in first_call.excluded_pages : e >= PageCount(call.input_path)
    /\ call.excluded_pages # {}
    /\ call.excluded_pages =
          first_call.excluded_pages \cap (0..(PageCount(call.input_path) - 1))
    /\ call.exc = NoExc /\ ~call.warned
    /\ call.output_path # first_call.output_path
    /\ Len(disk[call.output_path].pages) >= 1
    /\ disk[call.output_path] = disk[first_call.output_path]

\* parse_page_range has been called on the typed text
Parsed == excluded_indices # <<>>

\* the pages a token names: its number, or every number from a to b
Named(t) ==
    IF t.kind = "single" THEN {t.a}
    ELSE IF t.kind = "range" THEN t.a..t.b
    ELSE {}

\* a single 1-based integer or a closed range of 1-based integers
OneBased(t) ==
    \/ t.kind = "single" /\ t.a >= 1
    \/ t.kind = "range" /\ 1 <= t.a /\ t.a <= t.b

\* C12: for a text of comma-separated, optionally padded tokens that are
\* single 1-based integers or closed ranges, parse returns exactly the set
\* of page-1 over the pages the tokens name; an empty or all-whitespace text
\* gives the empty set; "1,3-5" gives {0,2,3,4} and "2-4,7,9-10" gives
\* {1,2,3,6,8,9}.
C12_ParsesNamedPages ==
    Parsed =>
        LET list == tokens.list
            result == excluded_indices[1]
        IN  /\ (\A i \in 1..Len(list) : OneBased(list[i])) =>
                  result = {p - 1 : p \in UNION {Named(list[i]) : i \in 1..Len(list)}}
            /\ list = <<>> => result = {}
            /\ exclude_pages_entry = <<"1", ",", "3", "-", "5">> => result = {0, 2, 3, 4}
            /\ exclude_pages_entry = <<"2", "-", "4", ",", "7", ",", "9", "-", "1", "0">>
                  => result = {1, 2, 3, 6, 8, 9}

\* a padded text of a range and a single page inside it has been parsed
C12_Witness ==
    /\ Parsed
    /\ tokens.pad
    /\ Len(tokens.list) = 2
    /\ tokens.list[1].kind = "range" /\ tokens.list[1].a < tokens.list[1].b
    /\ tokens.list[1].a >= 1
    /\ tokens.list[2].kind = "single" /\ tokens.list[2].a \in Named(tokens.list[1])
    /\ Cardinality(excluded_indices[1]) = tokens.list[1].b - tokens.list[1].a + 1

\* what token i of the typed list contributes when it is typed alone
Alone(i) ==
    IF tokens.list[i].kind = "bad" THEN {}
    ELSE parse_page_range(Typed(<<tokens.list[i]>>, tokens.pad))

\* C13: parse does not abort on a bad token: a token that fails integer
\* parsing, or a dash token without exactly two parts, contributes nothing
\* and every other token contributes what it contributes alone; "abc,2"
\* gives {1}.
C13_BadTokensSkipped ==
    Parsed =>
        /\ excluded_indices[1] = UNION {Alone(i) : i \in 1..Len(tokens.list)}
        /\ exclude_pages_entry = <<"a", "b", "c", ",", "2">> => excluded_indices[1] = {1}

\* a text has been parsed whose first token is bad and whose second token
\* names pages
C13_Witness ==
    /\ Parsed
    /\ Len(tokens.list) = 2
    /\ tokens.list[1].kind = "bad"
    /\ OneBased(tokens.list[2])
    /\ excluded_indices[1] # {}

\* a range token whose start is above its end
Reversed(t) == t.kind = "range" /\ t.a > t.b

\* C14: a range token a-b with a > b contributes nothing and raises no
\* error, its ends are not swapped: the result is that of the text without
\* such tokens, and "5-3" gives the empty set.
C14_ReversedRangeIsEmpty ==
    Parsed =>
        /\ excluded_indices[1] =
              parse_page_range(Typed(SelectSeq(tokens.list, LAMBDA t : ~Reversed(t)),
                                     tokens.pad))
        /\ exclude_pages_entry = <<"5", "-", "3">> => excluded_indices[1] = {}

\* a text with a reversed range of two pages and another token naming a
\* page has been parsed, the result holding one index only
C14_Witness ==
    /\ Parsed
    /\ Len(tokens.list) = 2
    /\ Reversed(tokens.list[1]) /\ tokens.list[1].b >= 1
    /\ tokens.list[2].kind = "single" /\ tokens.list[2].a >= 1
    /\ excluded_indices[1] = {tokens.list[2].a - 1}

\* C15: every element of the result is a non-negative index: a single
\* number below 1 adds nothing, and a range a-b adds page-1 for exactly the
\* pages p with a <= p <= b and p >= 1.
C15_IndicesNonNegative ==
    Parsed =>
        LET list == tokens.list
            result == excluded_indices[1]
        IN  /\ \A x \in result : x >= 0
            /\ (\A i \in 1..Len(list) : list[i].kind # "bad") =>
                  result = {p - 1 : p \in {q \in UNION {Named(list[i]) : i \in 1..Len(list)}
                                              : q >= 1}}

\* a text of the single number 0 and a range from 0 upward has been parsed
C15_Witness ==
    /\ Parsed
    /\ Len(tokens.list) = 2
    /\ tokens.list[1] = Single(0)
    /\ tokens.list[2].kind = "range" /\ tokens.list[2].a = 0 /\ tokens.list[2].b >= 2
    /\ excluded_indices[1] = 0..(tokens.list[2].b - 1)

\* the library calls the claim prescribes for the k-th output page (k from
\* 1), built from source page pno: clean, new sheet-sized page, source into
\* the safe zone, then the template's first page on the full sheet
PrescribedSteps(k, pno, with_template) ==
    << [op |-> "clean_contents", onto |-> -1, doc |-> "source", pno |-> pno,
        rect |-> NoRect],
       [op |-> "new_page", onto |-> k - 1, doc |-> "output", pno |-> k - 1,
        rect |-> [x0 |-> 0, y0 |-> 0, x1 |-> A3_WIDTH_PTS * Micro,
                  y1 |-> A3_HEIGHT_PTS * Micro]],
       [op |-> "show_pdf_page", onto |-> k - 1, doc |-> "source", pno |-> pno,
        rect |-> get_safe_zone_rect] >>
      \o (IF with_template
          THEN << [op |-> "show_pdf_page", onto |-> k - 1, doc |-> "template", pno |-> 0,
                   rect |-> [x0 |-> 0, y0 |-> 0, x1 |-> A3_WIDTH_PTS * Micro,
                             y1 |-> A3_HEIGHT_PTS * Micro]] >>
          ELSE <<>>)

RECURSIVE PrescribedTrace(_, _, _)
PrescribedTrace(k, pages, with_template) ==
    IF pages = <<>> THEN <<>>
    ELSE PrescribedSteps(k, Head(pages), with_template)
             \o PrescribedTrace(k + 1, Tail(pages), with_template)

\* the working set of the running call as an ascending sequence, up to the
\* pages the loop has passed
PagesDone ==
    LET W == WorkingSet(call.page_num, call.excluded_pages)
    IN  [k \in 1..Cardinality(W) |-> KthSmallest(W, k)]

\* C16: for each page of the working set the library calls are made in the
\* order clean the source page, create one sheet-sized output page, place
\* the source page into the safe zone, then, if the template has a page,
\* place its first page on the full sheet; the template is never placed
\* before the source content of the same page, and with a template without
\* pages the output pages carry source content only.
C16_PageStepsInOrder ==
    (call.fn = "compose" /\ call.pc \in {"loop", "finally", "returned"}
                         /\ call.opened = Docs /\ call.exc.kind # "CompositionFailure") =>
        /\ call.trace = PrescribedTrace(1, PagesDone, Len(call.template_doc) > 0)
        /\ \A i \in 1..Len(call.trace) :
              call.trace[i].doc = "template" =>
                  /\ i > 1
                  /\ call.trace[i - 1].op = "show_pdf_page"
                  /\ call.trace[i - 1].doc = "source"
                  /\ call.trace[i - 1].onto = call.trace[i].onto
        /\ Len(call.template_doc) = 0 =>
              \A k \in 1..Len(call.output_doc) :
                  ~call.output_doc[k].tmpl /\ call.output_doc[k].src >= 0

\* compose has returned after placing two source pages, each followed by
\* the template
C16_Witness ==
    /\ Returned("compose")
    /\ call.exc = NoExc
    /\ Len(call.output_doc) >= 2
    /\ Len(call.template_doc) >= 1
    /\ Len(call.trace) = 4 * Len(call.output_doc)
    /\ call.trace[Len(call.trace)].doc = "template"

\* C17: the jobs of a batch run strictly one after another: at every moment
\* the open documents belong to one job, and while a job runs no document
\* of an earlier job is open, whether that job succeeded or failed.
C17_OneJobsHandlesAtATime ==
    /\ \A g \in open_handles, h \in open_handles : g[1] = h[1]
    /\ batch.pc = "in_job" => \A h \in open_handles : h[1] = call.id

\* the second job of a batch has opened its source document after the first
\* job, with the same template, failed at opening the template with its
\* source document open
C17_Witness ==
    /\ batch.pc = "in_job"
    /\ call.id = 2
    /\ handled = 0
    /\ batch.raised = <<TRUE>>
    /\ Openable(batch.files[1], disk)
    /\ Exists(template_path, disk) /\ ~Openable(template_path, disk)
    /\ <<2, "source">> \in open_handles

\* C18: all files of a batch are composed with the same shared inputs: the
\* template path, the exclusion set and the output folder of every job are
\* the ones in effect when the batch started (at the click), also when the
\* user changes the template selection or the output folder while the batch
\* thread is running.
C18_JobsUseInputsOfBatchStart ==
    (batch.pc = "in_job" /\ call.fn = "compose") =>
        /\ call.template_path = batch.template_at_start
        /\ call.excluded_pages = parse_page_range(exclude_pages_entry)
        /\ call.output_path.dir = batch.folder_at_start

\* the files present in folder d
FilesIn(d) == {p \in AllPaths : p.dir = d /\ Exists(p, disk)}

\* C19: after a batch in which every job succeeded with a non-empty working
\* set, the output folder holds the file 'processed_' + base name of every
\* input file and as many output files as jobs succeeded, for every list of
\* input paths, also of paths from different directories.
C19_OneOutputPerInput ==
    (batch.pc = "done" /\ batch.failed = 0
        /\ \A i \in 1..Len(batch.files) :
              WorkingSet(PageCount(batch.files[i]), batch.excluded_pages) # {}) =>
        /\ \A i \in 1..Len(batch.files) :
              Exists(Path(batch.output_folder, OutputName(basename(batch.files[i]))), disk)
        /\ Cardinality(FilesIn(batch.output_folder)) = batch.successful

\* the placements of a source page the running call has made
SourcePlacements ==
    {i \in 1..Len(call.trace) :
        call.trace[i].op = "show_pdf_page" /\ call.trace[i].doc = "source"}

\* the sheet of the output page that step i of the trace works on: the
\* rectangle of the page as new_page made it
SheetOf(i) ==
    LET made == CHOOSE j \in 1..Len(call.trace) :
                    call.trace[j].op = "new_page" /\ call.trace[j].onto = call.trace[i].onto
    IN  call.trace[made].rect

\* C20: the safe zone a source page is placed into lies strictly inside
\* the sheet, 0 < x0 < x1 < sheet width and 0 < y0 < y1 < sheet height, and
\* is the same rectangle in every job: 56.6929, 113.3858, 1134.3071,
\* 756.96065 points.
C20_SafeZoneInsideSheet ==
    \A i \in SourcePlacements :
        LET z == call.trace[i].rect
            sheet == SheetOf(i)
        IN  /\ 0 < z.x0 /\ z.x0 < z.x1 /\ z.x1 < sheet.x1
            /\ 0 < z.y0 /\ z.y0 < z.y1 /\ z.y1 < sheet.y1
            /\ z = [x0 |-> 56692900, y0 |-> 113385800,
                    x1 |-> 1134307100, y1 |-> 756960650]

\* the second job of a batch has placed a source page after the first job
\* succeeded
C20_Witness ==
    /\ batch.pc = "in_job"
    /\ batch.idx = 2
    /\ batch.successful = 1
    /\ SourcePlacements # {}

\* C21: the project metadata passed to compose has no influence on the
\* result: a compose that differs from an earlier one in project_data only
\* (same input, template and exclusion set) ends with the same outcome, the
\* same error or the same output pages, the same file written or not.
C21_ProjectDataNoInfluence ==
    (Returned("compose") /\ first_call.fn = "compose"
        /\ call.excluded_pages = first_call.excluded_pages
        /\ call.project_data # first_call.project_data) =>
        Outcome(call) = Outcome(first_call)

\* two composes have written equal outputs to two files, the first without
\* project data, the second with the filled-in form
C21_Witness ==
    /\ Returned("compose")
    /\ first_call.fn = "compose"
    /\ call.excluded_pages = first_call.excluded_pages
    /\ first_call.project_data = <<>>
    /\ call.project_data = <<FilledForm>>
    /\ call.exc = NoExc /\ ~call.warned
    /\ call.output_path # first_call.output_path
    /\ Len(disk[call.output_path].pages) >= 1
    /\ disk[call.output_path] = disk[first_call.output_path]

\* C22: the only persistent effect of compose is the output file and its
\* parent directory: at every point of a call, whatever its path, every
\* other file on disk, the input file and the template file among them, is
\* as it was, also after the source pages were cleaned in memory.
C22_InputAndTemplateUnchanged ==
    call.fn = "compose" =>
        /\ \A p \in AllPaths \ {call.output_path} : disk[p] = InitDisk[p]
        /\ disk[call.input_path] = InitDisk[call.input_path]
        /\ disk[call.template_path] = InitDisk[call.template_path]
        /\ InitDirs \subseteq dirs
        /\ dirs \subseteq InitDirs \cup {call.output_path.dir}

\* compose has written an output into a folder it made, having cleaned the
\* first source page in memory, the page on disk being as it was
C22_Witness ==
    /\ Returned("compose")
    /\ call.exc = NoExc
    /\ Len(call.source_doc) >= 1
    /\ call.source_doc[1].ops = <<"clean_contents">>
    /\ disk[call.input_path].pages[1].ops = <<>>
    /\ Len(disk[call.output_path].pages) >= 1
    /\ call.output_path.dir \notin InitDirs
    /\ call.output_path.dir \in dirs

\* the same job a second time: the input, template, output path and
\* exclusion set of the earlier call
SameJobAgain ==
    /\ Returned("compose")
    /\ first_call.fn = "compose"
    /\ call.input_path = first_call.input_path
    /\ call.template_path = first_call.template_path
    /\ call.output_path = first_call.output_path
    /\ call.excluded_pages = first_call.excluded_pages

\* the first call ended normally with an output written
WroteOutput(c) == c.exc = NoExc /\ ~c.warned

\* C23: compose is idempotent for fixed inputs: the same job run a second
\* time, the first run's output file being present, ends in the same
\* outcome and leaves the output file the first run left.
C23_SecondRunSameResult ==
    SameJobAgain =>
        /\ call.exc.kind = first_call.exc.kind
        /\ call.warned = first_call.warned
        /\ call.output_doc = first_call.output_doc
        /\ disk[call.output_path] =
              IF WroteOutput(first_call) THEN Pdf(first_call.output_doc)
              ELSE InitDisk[call.output_path]

\* the same job has run twice and written its output both times
C23_Witness ==
    /\ SameJobAgain
    /\ WroteOutput(first_call)
    /\ WroteOutput(call)
    /\ Len(call.output_doc) >= 1
    /\ disk[call.output_path] = Pdf(call.output_doc)

FracLeq(a, b) == a.n * b.d <= b.n * a.d

FracEq(a, b) == a.n * b.d = b.n * a.d

FracLess(a, b) == a.n * b.d < b.n * a.d

\* C24: source content is placed into the safe zone with a contain fit: the
\* placed width does not exceed the safe zone's width nor the placed height
\* its height, the aspect ratio is that of the source page, and one of the
\* two dimensions equals the safe zone's; a relatively wider page fills the
\* width with strictly smaller height, a relatively taller page the height
\* with strictly smaller width.
C24_ContainFit ==
    fit.shown # <<>> =>
        LET placed == fit.shown[1]
            zw == Frac((get_safe_zone_rect.x1 - get_safe_zone_rect.x0) \div FitUnit, 1)
            zh == Frac((get_safe_zone_rect.y1 - get_safe_zone_rect.y0) \div FitUnit, 1)
            wider == fit.w * zh.n > fit.h * zw.n
            taller == fit.w * zh.n < fit.h * zw.n
        IN  /\ FracLeq(placed.width, zw)
            /\ FracLeq(placed.height, zh)
            /\ placed.width.n * placed.height.d * fit.h
                  = placed.height.n * placed.width.d * fit.w
            /\ FracEq(placed.width, zw) \/ FracEq(placed.height, zh)
            /\ wider => FracEq(placed.width, zw) /\ FracLess(placed.height, zh)
            /\ taller => FracEq(placed.height, zh) /\ FracLess(placed.width, zw)

\* an upright page has been placed: it fills the height of the safe zone
\* and less than its width
C24_Witness ==
    /\ fit.shown # <<>>
    /\ fit.h > fit.w
    /\ fit.shown[1].height.n = 12871497 * fit.shown[1].height.d
    /\ fit.shown[1].width.n < 21552284 * fit.shown[1].width.d

\* C25: every batch started by "Process & Save" eventually completes: the
\* button disabled at the start is eventually enabled again, the batch
\* thread having scheduled its completion report, whatever the outcome of
\* the jobs and of the creation of the output folder.
C25_BatchCompletes ==
    (save_export_btn = "disabled") ~> (batch.pc = "done" /\ save_export_btn = "normal")

\* the batch completes unless the creation of the output folder ends the
\* thread
C25_CompletesWithFolder ==
    (save_export_btn = "disabled")
        ~> ((batch.pc = "done" /\ save_export_btn = "normal") \/ batch.pc = "crashed")

\* the output document of c is completely composed: one sheet for each page
\* of the working set, in ascending order, each showing its source page and,
\* when the template has pages, the template
CompletelyComposed(c) ==
    LET working == WorkingSet(Len(c.source_doc), c.excluded_pages)
    IN  /\ Len(c.output_doc) = Cardinality(working)
        /\ \A k \in 1..Len(c.output_doc) :
              /\ c.output_doc[k].src = KthSmallest(working, k)
              /\ \E j \in 1..Len(c.output_doc[k].ops) :
                    c.output_doc[k].ops[j] = "show_source"
              /\ c.output_doc[k].tmpl = (Len(c.template_doc) > 0)

\* C26: a compose call that fails while cleaning or placing a page creates
\* or modifies no output file and creates no directory: the only step of a
\* call that changes the disk or the directories is the write step taken
\* with no exception after the loop has passed every page, it touches no
\* path but output_path and no directory but its parent, and a file it
\* writes is the completely composed document, never one with only some of
\* the working pages.
C26_NoPartialOutput ==
    [][(call.fn = "compose" /\ (disk' # disk \/ dirs' # dirs)) =>
          /\ call.pc = "loop"
          /\ call.exc = NoExc
          /\ call.page_num >= Len(call.source_doc)
          /\ \A p \in AllPaths \ {call.output_path} : disk'[p] = disk[p]
          /\ dirs \subseteq dirs'
          /\ dirs' \subseteq dirs \cup {call.output_path.dir}
          /\ disk'[call.output_path] # disk[call.output_path] =>
                /\ disk'[call.output_path] = Pdf(call.output_doc)
                /\ CompletelyComposed(call)]_vars

\* a call has failed while placing a page, after an earlier sheet was added
\* to its output document; the file an earlier call wrote at the same
\* output path is still that call's document
C26_Witness ==
    /\ Returned("compose")
    /\ call.exc.kind = "CompositionFailure"
    /\ Len(call.output_doc) >= 1
    /\ first_call.fn = "compose"
    /\ first_call.output_path = call.output_path
    /\ WroteOutput(first_call)
    /\ Len(first_call.output_doc) >= 1
    /\ disk[call.output_path] = Pdf(first_call.output_doc)

\* the file the navigation is at
CurrentFile ==
    IF selected_files = <<>> THEN NoPath ELSE selected_files[current_file_index + 1]

\* C27: after any sequence of navigation operations, whenever files are
\* selected the file index lies in 0 .. number of selected files - 1 and the
\* page index is 0 or lies in 0 .. current_file_page_count - 1; every change
\* of the current file resets the page index to 0.
C27_NavigationInRange ==
    /\ [](selected_files # <<>> =>
            /\ 0 <= current_file_index
            /\ current_file_index < Len(selected_files)
            /\ \/ current_page_index = 0
               \/ 0 <= current_page_index /\ current_page_index < current_file_page_count)
    /\ [][(selected_files' # selected_files \/ current_file_index' # current_file_index)
              => current_page_index' = 0]_vars

\* the navigation went to the second page of a file and then on to the next
\* file, where it is at the first page
C27_Witness ==
    /\ Len(selected_files) = 2
    /\ current_file_index = 1
    /\ current_page_index = 0
    /\ \E t \in preview_threads :
          t.file_path = selected_files[1] /\ t.page_number = 1

\* what the preview of the current file and page shows
CurrentPreview ==
    LET pil_image == generate_preview_image(CurrentFile, current_page_index)
    IN  IF pil_image = <<>> THEN Message("error") ELSE pil_image[1]

\* C28: once every preview thread that was started has ended and its
\* callback has run, the canvas shows the preview of the current file and
\* page, whatever the order in which the threads ended.
C28_PreviewIsCurrent ==
    (selected_files # <<>> /\ update_stack = <<>> /\ preview_threads = {}
        /\ after_queue = <<>>) =>
        canvas = CurrentPreview

====
